---------------------------- MODULE Spec2Model ----------------------------
(***************************************************************************)
(* A model of the detection core of PYFires (pyfires/PYF_detection.py and  *)
(* pyfires/PYF_basic.py): the high pass kernels, the SZA adjusted stage 1   *)
(* thresholds, the stage 1a/1b vote counting of stage1_tests and the stage  *)
(* 5 confidence of do_stage5.                                               *)
(*                                                                         *)
(* Numbers.  numpy's floating point values are modelled as extended        *)
(* rationals <<n, d>> with d >= 0 in lowest terms: d > 0 is the finite      *)
(* value n/d, <<1, 0>> is +inf, <<-1, 0>> is -inf and <<0, 0>> is NaN.      *)
(* Arithmetic and comparisons follow IEEE 754 on these values (x/0 is an   *)
(* infinity, 0/0 and inf*0 and inf-inf are NaN, every comparison with NaN   *)
(* is false); rounding is not modelled.                                     *)
(***************************************************************************)
EXTENDS Integers, Sequences, FiniteSets, TLC

(***************************************************************************)
(* Bounds of the model.                                                    *)
(***************************************************************************)
\* Side of the square grids given to stage1_tests.
GridN == 3
\* Longest list of kernel sizes given to stage1_tests.
MaxKernels == 2
\* Largest value of PYFc.stage1_pass_thresh tried.
MaxPassThresh == 3
\* Solar zenith angles 0..MaxSza (degrees) given to set_initial_thresholds.
MaxSza == 180
\* Kernel sizes 0..MaxKsize given to _make_kern.
MaxKsize == 12
\* Number of pixels of the arrays given to do_stage5.
NPix == 2
\* Resolution of the fixed point fifth root: results are multiples of 1/RootScale.
RootScale == 10

(***************************************************************************)
(* Extended rational arithmetic (numpy float semantics without rounding).  *)
(***************************************************************************)
Abs(x) == IF x < 0 THEN -x ELSE x

Sgn(x) == IF x > 0 THEN 1 ELSE IF x < 0 THEN -1 ELSE 0

RECURSIVE Gcd(_, _)
Gcd(a, b) == IF b = 0 THEN a ELSE Gcd(b, a % b)

\* The float n/d of two integers: lowest terms, d = 0 gives +-inf or NaN.
Rat(n, d) ==
    IF d = 0 THEN <<Sgn(n), 0>>
    ELSE LET g == Gcd(Abs(n), Abs(d))
         IN  <<Sgn(d) * (n \div g), Abs(d) \div g>>

NaN == <<0, 0>>
RInt(i) == <<i, 1>>
IsNaN(x) == x[1] = 0 /\ x[2] = 0
IsInf(x) == x[1] # 0 /\ x[2] = 0
IsFinite(x) == x[2] > 0

RNeg(x) == <<-x[1], x[2]>>

RAdd(x, y) ==
    IF IsNaN(x) \/ IsNaN(y) THEN NaN
    ELSE IF IsInf(x) /\ IsInf(y) THEN (IF x[1] = y[1] THEN x ELSE NaN)
    ELSE IF IsInf(x) THEN x
    ELSE IF IsInf(y) THEN y
    ELSE Rat(x[1] * y[2] + y[1] * x[2], x[2] * y[2])

RSub(x, y) == RAdd(x, RNeg(y))

RMul(x, y) ==
    IF IsNaN(x) \/ IsNaN(y) THEN NaN
    ELSE Rat(x[1] * y[1], x[2] * y[2])

RDiv(x, y) ==
    IF IsNaN(x) \/ IsNaN(y) THEN NaN
    ELSE IF IsInf(x) /\ IsInf(y) THEN NaN
    ELSE IF IsInf(y) THEN <<0, 1>>
    ELSE IF y[1] < 0 THEN Rat(-(x[1] * y[2]), x[2] * (-y[1]))
    ELSE Rat(x[1] * y[2], x[2] * y[1])

RLt(x, y) ==
    /\ ~IsNaN(x)
    /\ ~IsNaN(y)
    /\ IF x[2] = 0 /\ y[2] = 0 THEN x[1] < y[1] ELSE x[1] * y[2] < y[1] * x[2]

RGt(x, y) == RLt(y, x)

RGe(x, y) == ~IsNaN(x) /\ ~IsNaN(y) /\ ~RLt(x, y)

RLe(x, y) == RGe(y, x)

\* xr.where(cond, a, b) on one element.
Where(cond, a, b) == IF cond THEN a ELSE b

RECURSIVE SumSeq(_, _)
\* s[1] + ... + s[n]
SumSeq(s, n) == IF n = 0 THEN 0 ELSE s[n] + SumSeq(s, n - 1)

\* The function f itself, tabulated: TLC evaluates each f[x] once instead of on
\* every use.
Tab(f) == f @@ f

(***************************************************************************)
(* _make_kern: the high pass kernels, written out per size as in the       *)
(* source.                                                                 *)
(***************************************************************************)
Arr3 ==
    << <<-1, -1, -1>>,
       <<-1, 9, -1>>,
       <<-1, -1, -1>> >>

Arr5 ==
    << <<-1, -1, -1, -1, -1>>,
       <<-1, -1, -1, -1, -1>>,
       <<-1, -1, 25, -1, -1>>,
       <<-1, -1, -1, -1, -1>>,
       <<-1, -1, -1, -1, -1>> >>

Arr7 ==
    << <<-1, -1, -1, -1, -1, -1, -1>>,
       <<-1, -1, -1, -1, -1, -1, -1>>,
       <<-1, -1, -1, -1, -1, -1, -1>>,
       <<-1, -1, -1, 49, -1, -1, -1>>,
       <<-1, -1, -1, -1, -1, -1, -1>>,
       <<-1, -1, -1, -1, -1, -1, -1>>,
       <<-1, -1, -1, -1, -1, -1, -1>> >>

Arr9 ==
    << <<-1, -1, -1, -1, -1, -1, -1, -1, -1>>,
       <<-1, -1, -1, -1, -1, -1, -1, -1, -1>>,
       <<-1, -1, -1, -1, -1, -1, -1, -1, -1>>,
       <<-1, -1, -1, -1, -1, -1, -1, -1, -1>>,
       <<-1, -1, -1, -1, 81, -1, -1, -1, -1>>,
       <<-1, -1, -1, -1, -1, -1, -1, -1, -1>>,
       <<-1, -1, -1, -1, -1, -1, -1, -1, -1>>,
       <<-1, -1, -1, -1, -1, -1, -1, -1, -1>>,
       <<-1, -1, -1, -1, -1, -1, -1, -1, -1>> >>

Arr11 ==
    << <<-1, -1, -1, -1, -1, -1, -1, -1, -1, -1, -1>>,
       <<-1, -1, -1, -1, -1, -1, -1, -1, -1, -1, -1>>,
       <<-1, -1, -1, -1, -1, -1, -1, -1, -1, -1, -1>>,
       <<-1, -1, -1, -1, -1, -1, -1, -1, -1, -1, -1>>,
       <<-1, -1, -1, -1, -1, -1, -1, -1, -1, -1, -1>>,
       <<-1, -1, -1, -1, -1, 121, -1, -1, -1, -1, -1>>,
       <<-1, -1, -1, -1, -1, -1, -1, -1, -1, -1, -1>>,
       <<-1, -1, -1, -1, -1, -1, -1, -1, -1, -1, -1>>,
       <<-1, -1, -1, -1, -1, -1, -1, -1, -1, -1, -1>>,
       <<-1, -1, -1, -1, -1, -1, -1, -1, -1, -1, -1>>,
       <<-1, -1, -1, -1, -1, -1, -1, -1, -1, -1, -1>> >>

\* np.sum(arr)
ArrSum(arr) ==
    SumSeq([i \in 1..Len(arr) |-> SumSeq(arr[i], Len(arr[i]))], Len(arr))

\* Faulty variant of _make_kern without its last entry: size 11 falls through to the raise.
MakeKernNoEleven(ksize) ==
    IF ksize = 3 THEN [ok |-> TRUE, arr |-> Arr3, den |-> ArrSum(Arr3)]
    ELSE IF ksize = 5 THEN [ok |-> TRUE, arr |-> Arr5, den |-> ArrSum(Arr5)]
    ELSE IF ksize = 7 THEN [ok |-> TRUE, arr |-> Arr7, den |-> ArrSum(Arr7)]
    ELSE IF ksize = 9 THEN [ok |-> TRUE, arr |-> Arr9, den |-> ArrSum(Arr9)]
    ELSE [ok |-> FALSE, arr |-> <<>>, den |-> 0]

\* Faulty variant of _make_kern with a final else that falls back to the 3x3 kernel.
MakeKernFallback(ksize) ==
    IF ksize = 5 THEN [ok |-> TRUE, arr |-> Arr5, den |-> ArrSum(Arr5)]
    ELSE [ok |-> TRUE, arr |-> Arr3, den |-> ArrSum(Arr3)]

\* _make_kern(ksize): ok = FALSE is the raised ValueError.  The returned array
\* arr / np.sum(arr) is kept as the integer array with its common divisor den:
\* entry (i, j) is the float arr[i][j] / den.
MakeKern(ksize) ==
    IF ksize = 3 THEN [ok |-> TRUE, arr |-> Arr3, den |-> ArrSum(Arr3)]
    ELSE IF ksize = 5 THEN [ok |-> TRUE, arr |-> Arr5, den |-> ArrSum(Arr5)]
    ELSE IF ksize = 7 THEN [ok |-> TRUE, arr |-> Arr7, den |-> ArrSum(Arr7)]
    ELSE IF ksize = 9 THEN [ok |-> TRUE, arr |-> Arr9, den |-> ArrSum(Arr9)]
    ELSE IF ksize = 11 THEN [ok |-> TRUE, arr |-> Arr11, den |-> ArrSum(Arr11)]
    ELSE [ok |-> FALSE, arr |-> <<>>, den |-> 0]

\* Entry (i, j) of a returned kernel.
KernEntry(kern, i, j) == Rat(kern.arr[i][j], kern.den)

(***************************************************************************)
(* set_initial_thresholds                                                  *)
(***************************************************************************)
\* The default parameters (PYFc values as documented in the docstring).
DefaultThresh ==
    [mir_thresh_bt      |-> Rat(3105, 10),
     mir_thresh_sza_adj |-> Rat(-3, 10),
     mir_thresh_limit   |-> RInt(280),
     btd_thresh_bt      |-> Rat(175, 100),
     btd_thresh_sza_adj |-> Rat(-49, 10000),
     btd_thresh_limit   |-> RInt(1)]

\* The linear terms of lines 101 and 103.
MirLinear(sza, cfg) == RAdd(cfg.mir_thresh_bt, RMul(cfg.mir_thresh_sza_adj, RInt(sza)))
BtdLinear(sza, cfg) == RAdd(cfg.btd_thresh_bt, RMul(cfg.btd_thresh_sza_adj, RInt(sza)))

\* Faulty variant of set_initial_thresholds that clamps from above (> written for <).
SetInitialThresholdsMin(sza, cfg) ==
    [mir_thresh |-> Where(RGt(MirLinear(sza, cfg), cfg.mir_thresh_limit),
                          cfg.mir_thresh_limit, MirLinear(sza, cfg)),
     btd_thresh |-> Where(RGt(BtdLinear(sza, cfg), cfg.btd_thresh_limit),
                          cfg.btd_thresh_limit, BtdLinear(sza, cfg))]

\* set_initial_thresholds on one element of sza.
SetInitialThresholds(sza, cfg) ==
    [mir_thresh |-> Where(RLt(MirLinear(sza, cfg), cfg.mir_thresh_limit),
                          cfg.mir_thresh_limit, MirLinear(sza, cfg)),
     btd_thresh |-> Where(RLt(BtdLinear(sza, cfg), cfg.btd_thresh_limit),
                          cfg.btd_thresh_limit, BtdLinear(sza, cfg))]

(***************************************************************************)
(* Grids and the kernel convolution of do_apply_stg1b_kern2.               *)
(***************************************************************************)
Pixels == (1..GridN) \X (1..GridN)

RECURSIVE RSumFun(_, _)
\* The float sum of f over S.
RSumFun(f, S) ==
    IF S = {} THEN RInt(0)
    ELSE LET x == CHOOSE y \in S : TRUE IN RAdd(f[x], RSumFun(f, S \ {x}))

\* Faulty variant of the boundary rule: no padding, a cell off the grid has no index.
ReflectNone(i) == IF i >= 1 /\ i <= GridN THEN i ELSE 0

\* The grid index read for the (1-based) index i of the padded grid: the default
\* mode of dask_image.ndfilters.convolve is 'reflect' ( d c b a | a b c d | d c b a ).
Reflect(i) ==
    LET m == (i - 1) % (2 * GridN)
    IN  IF m < GridN THEN m + 1 ELSE 2 * GridN - m

\* The cell of img at padded index (r, c); NaN when the boundary rule gives no cell.
Padded(img, r, c) ==
    IF Reflect(r) = 0 \/ Reflect(c) = 0 THEN NaN ELSE img[<<Reflect(r), Reflect(c)>>]

\* convolve(in_variable.data, kern) at pixel p: sum over the kernel footprint of
\* weight * cell, the weights flipped as a convolution does.  The cells are whole
\* numbers or NaN, and a NaN cell in the footprint makes the sum NaN.
ConvolveAt(img, kern, p) ==
    LET k == Len(kern.arr)
        h == k \div 2
        cell(i, j) == Padded(img, p[1] + h + 1 - i, p[2] + h + 1 - j)
        fp == (1..k) \X (1..k)
    IN  IF kern.den = 0 \/ \E ij \in fp : IsNaN(cell(ij[1], ij[2])) THEN NaN
        ELSE Rat(SumSeq([i \in 1..k |->
                     SumSeq([j \in 1..k |-> kern.arr[i][j] * cell(i, j)[1]], k)], k),
                 kern.den)

Convolve(img, kern) == Tab([p \in Pixels |-> ConvolveAt(img, kern, p)])

\* da.nanstd(out_ker), squared: the variance of the cells that are not NaN.
NanVar(ker) ==
    LET valid == {p \in Pixels : ~IsNaN(ker[p])}
        m == RInt(Cardinality(valid))
        mean == RDiv(RSumFun(ker, valid), m)
        dev == Tab([p \in valid |-> RMul(RSub(ker[p], mean), RSub(ker[p], mean))])
    IN  RDiv(RSumFun(dev, valid), m)

\* do_apply_stg1b_kern2(in_variable, ksize) for a supported size: the filtered
\* grid and the square of its standard deviation (with the size they are for).
DoApplyStg1bKern2(img, ksize) ==
    LET kern == MakeKern(ksize)
        ker == Convolve(img, [ok |-> kern.ok, arr |-> kern.arr, den |-> kern.den])
    IN  [ksize |-> ksize, ker |-> ker, var |-> NanVar(ker)]

\* kerval >= stdval * thr, with stdval = sqrt(var), decided on the squares.
GeStdTimes(kv, var, thr) ==
    IF IsNaN(kv) \/ IsNaN(var) \/ IsNaN(thr) \/ ~IsFinite(kv) \/ ~IsFinite(var) THEN FALSE
    ELSE LET rs == IF var[1] = 0 THEN 0 ELSE Sgn(thr[1])
             ks == Sgn(kv[1])
             rsq == RMul(var, RMul(thr, thr))
             ksq == RMul(kv, kv)
         IN  IF ks >= 0 /\ rs <= 0 THEN TRUE
             ELSE IF ks < 0 /\ rs >= 0 THEN FALSE
             ELSE IF ks >= 0 THEN RGe(ksq, rsq)
             ELSE RLe(ksq, rsq)

(***************************************************************************)
(* The steps of stage1_tests, each on whole grids.                         *)
(***************************************************************************)
\* "2 = land, 1 = coast, 0 = sea"
lsm_land_val == 2

kern_thresh_btd == Rat(15, 10)
kern_thresh_sza_adj == Rat(-12, 1000)

\* btd_kern_thr = kern_thresh_btd + kern_thresh_sza_adj * in_sza
BtdKernThr(sza) ==
    [p \in Pixels |-> RAdd(kern_thresh_btd, RMul(kern_thresh_sza_adj, RInt(sza[p])))]

\* Faulty variant of the kernel vote: a failed kernel test resets the counter.
KernelVoteReset(arr, f, thr) ==
    [p \in Pixels |-> Where(GeStdTimes(f.ker[p], f.var, thr[p]), arr[p] + 1, 0)]

\* One pass of the loop body after the convolution (lines 160-161): tmpdata is 1
\* where kerval >= stdval * btd_kern_thr, and the counter grows by 1 where tmpdata > 0.
KernelVote(arr, f, thr) ==
    LET tmpdata == [p \in Pixels |-> Where(GeStdTimes(f.ker[p], f.var, thr[p]), 1, 0)]
    IN  [p \in Pixels |-> Where(tmpdata[p] > 0, arr[p] + 1, arr[p])]

\* Faulty variant of the MIR test: an additive vote, the counter is kept on failure.
MirTestAdditive(arr, mir, thresh) ==
    [p \in Pixels |-> Where(RGe(mir[p], thresh[p]), arr[p] + 1, arr[p])]

\* main_testarr = xr.where(in_mir >= mir_thresh, main_testarr + 1, 0)
MirTest(arr, mir, thresh) ==
    [p \in Pixels |-> Where(RGe(mir[p], thresh[p]), arr[p] + 1, 0)]

\* main_testarr = xr.where(in_btd >= btd_thresh, main_testarr + 1, 0)
BtdTest(arr, btd, thresh) ==
    [p \in Pixels |-> Where(RGe(btd[p], thresh[p]), arr[p] + 1, 0)]

\* Faulty variant of the land-sea gate: applied whatever do_lsm_mask says.
LsmGateAlways(arr, lsm, do_mask) ==
    [p \in Pixels |-> Where(lsm[p] = lsm_land_val, arr[p], 0)]

\* if do_lsm_mask: main_testarr = xr.where(in_lsm == lsm_land_val, main_testarr, 0)
LsmGate(arr, lsm, do_mask) ==
    IF do_mask THEN [p \in Pixels |-> Where(lsm[p] = lsm_land_val, arr[p], 0)]
    ELSE arr

\* Faulty variant of the vis_diff gate: the counter is zeroed where in_vid < 0.
VidGateNegative(arr, vid) == [p \in Pixels |-> Where(RLt(vid[p], RInt(0)), 0, arr[p])]

\* main_testarr = xr.where(in_vid >= 0, main_testarr, 0)
VidGate(arr, vid) == [p \in Pixels |-> Where(RGe(vid[p], RInt(0)), arr[p], 0)]

\* pfp_arr.data = xr.where(main_testarr >= PYFc.stage1_pass_thresh, 1, 0)
MakePfp(arr, thresh) == [p \in Pixels |-> Where(arr[p] >= thresh, 1, 0)]

\* The gates and the final mask on a counter grid that left the kernel loop.
AfterLoop(arr, mir, btd, vid, lsm, do_mask, mthr, bthr, pthr) ==
    MakePfp(VidGate(LsmGate(BtdTest(MirTest(arr, mir, mthr), btd, bthr), lsm, do_mask), vid),
            pthr)

(***************************************************************************)
(* State.                                                                  *)
(***************************************************************************)
VARIABLES
    \* stage1_tests: its arguments, PYFc.stage1_pass_thresh, and its locals
    in_mir, in_btd, in_vid, in_sza, in_lsm, ksizes, do_lsm_mask, pass_thresh,
    pc, kidx, btd_kern_thr, mir_thresh, btd_thresh, main_testarr, filt, pfp,
    \* a call of set_initial_thresholds and a call of _make_kern
    thr_sza, thr_cfg, thr_out, mk_ksize, mk_out,
    \* a call of do_stage5: per pixel inputs, components and confidence
    s5_in, s5_comp, s5_conf, s5_pc,
    \* a call of calc_frp: PYFc.sigma and PYFc.rad_to_bt_dict, the dictionary the
    \* caller passed, the dictionary object itself, and where the call is
    frp_consts, frp_arg, data_dict, frp_pc,
    \* run_basic_night_detection, called twice on the same arguments: the grids
    \* the caller passed, the array objects, the opts dictionary, the locals,
    \* the value the current call returned and the value the first call returned
    nt_in, nt_heap, nt_opts, nt_pc, nt_call, thr_vis, def_dets, out_dets, nt_ret, nt_ret1,
    \* compute_background_rad: who called it, its arguments, locals and return value
    bg_caller, bg_args, bg_tmp, bg_i, cum_sum, bg_ret,
    \* compute_window_stats: its arguments, where the run is, and per pixel where
    \* its window growth is, the half-size it examines and its WindowStats record
    ws_in, ws_cfg, ws_run, ws_pc, ws_w, ws_stats,
    tl_pc, tl_stats

s1vars == <<in_mir, in_btd, in_vid, in_sza, in_lsm, ksizes, do_lsm_mask, pass_thresh,
            pc, kidx, btd_kern_thr, mir_thresh, btd_thresh, main_testarr, filt, pfp>>
uvars == <<thr_sza, thr_cfg, thr_out, mk_ksize, mk_out>>
s5vars == <<s5_in, s5_comp, s5_conf, s5_pc>>
frpvars == <<frp_consts, frp_arg, data_dict, frp_pc>>
ntvars == <<nt_in, nt_heap, nt_opts, nt_pc, nt_call, thr_vis, def_dets, out_dets,
            nt_ret, nt_ret1>>
bgvars == <<bg_caller, bg_args, bg_tmp, bg_i, cum_sum, bg_ret>>
tlvars == <<tl_pc, tl_stats>>
wsvars == <<ws_in, ws_cfg, ws_run, ws_pc, ws_w, ws_stats, tlvars>>
xvars == <<frpvars, ntvars, bgvars, wsvars>>
vars == <<s1vars, uvars, s5vars, xvars>>

(***************************************************************************)
(* stage1_tests as a process: pc is the statement about to run.            *)
(***************************************************************************)
\* Input grids: a background value with one pixel (hot) set apart.
Patterned(bg, fg, hot) == [p \in Pixels |-> IF p = hot THEN fg ELSE bg]

\* The same grid with float cells.
FloatGrid(g) == [p \in Pixels |-> RInt(g[p])]

FocusPixels == {<<1, 1>>, <<2, 2>>}
MirPairs == {<<320, 320>>, <<320, 270>>, <<270, 320>>}
BtdVals == {0, 2}
VidPairs == {<<0, 0>>, <<0, -1>>}
LsmPairs == {<<2, 2>>, <<2, 1>>}
SzaVals == {25, 175}
KsizeVals == {3, 4, 5}
KsizeLists == UNION {[1..n -> KsizeVals] : n \in 0..MaxKernels}
PassThreshs == 1..MaxPassThresh

ZeroGrid == [p \in Pixels |-> 0]
NaNGrid == [p \in Pixels |-> NaN]

S1Idle ==
    /\ in_mir = ZeroGrid /\ in_btd = ZeroGrid /\ in_vid = ZeroGrid
    /\ in_sza = ZeroGrid /\ in_lsm = ZeroGrid
    /\ ksizes = <<>> /\ do_lsm_mask = FALSE /\ pass_thresh = 1
    /\ pc = "idle" /\ kidx = 1
    /\ btd_kern_thr = NaNGrid /\ mir_thresh = NaNGrid /\ btd_thresh = NaNGrid
    /\ main_testarr = ZeroGrid /\ filt = <<>> /\ pfp = ZeroGrid

UIdle ==
    /\ thr_sza = 0 /\ thr_cfg = DefaultThresh
    /\ thr_out = [set |-> FALSE, mir_thresh |-> NaN, btd_thresh |-> NaN]
    /\ mk_ksize = 0
    /\ mk_out = [set |-> FALSE, ok |-> FALSE, arr |-> <<>>, den |-> 0]

S5Idle ==
    /\ s5_in = <<>> /\ s5_comp = <<>> /\ s5_conf = <<>> /\ s5_pc = "idle"

FrpIdle ==
    /\ frp_consts = <<>> /\ frp_arg = <<>> /\ data_dict = <<>> /\ frp_pc = "idle"

NtIdle ==
    /\ nt_in = <<>> /\ nt_heap = <<>> /\ nt_opts = <<>> /\ nt_pc = "idle" /\ nt_call = 0
    /\ thr_vis = NaN /\ def_dets = "" /\ out_dets = "" /\ nt_ret = <<>> /\ nt_ret1 = <<>>

BgIdle ==
    /\ bg_caller = "" /\ bg_args = <<>> /\ bg_tmp = <<>> /\ bg_i = 0
    /\ cum_sum = RInt(0) /\ bg_ret = NaN

WsIdle ==
    /\ ws_in = <<>> /\ ws_cfg = <<>> /\ ws_run = "idle"
    /\ ws_pc = <<>> /\ ws_w = <<>> /\ ws_stats = <<>>
    /\ tl_pc = <<>> /\ tl_stats = <<>>

XIdle == FrpIdle /\ NtIdle /\ BgIdle /\ WsIdle

\* stage1_tests is called: the arguments are bound, nothing has run.
S1Init ==
    /\ \E hot \in FocusPixels :
        /\ \E m \in MirPairs : in_mir = FloatGrid(Patterned(m[1], m[2], hot))
        /\ \E bg \in BtdVals, fg \in BtdVals : in_btd = FloatGrid(Patterned(bg, fg, hot))
        /\ \E v \in VidPairs : in_vid = FloatGrid(Patterned(v[1], v[2], hot))
        /\ \E l \in LsmPairs : in_lsm = Patterned(l[1], l[2], hot)
    /\ \E s \in SzaVals : in_sza = [p \in Pixels |-> s]
    /\ ksizes \in KsizeLists
    /\ do_lsm_mask \in BOOLEAN
    /\ pass_thresh \in PassThreshs
    /\ pc = "start" /\ kidx = 1
    /\ btd_kern_thr = NaNGrid /\ mir_thresh = NaNGrid /\ btd_thresh = NaNGrid
    /\ main_testarr = ZeroGrid /\ filt = <<>> /\ pfp = ZeroGrid

Init == S1Init /\ UIdle /\ S5Idle /\ XIdle

\* The grid g, with an invalid cell at pixel bad when the grid is the one chosen.
NanAt(g, chosen, bad) == [p \in Pixels |-> IF chosen /\ p = bad THEN NaN ELSE g[p]]

NanChannels == {"mir", "btd", "vid"}

\* stage1_tests is called with one invalid cell in one of in_mir, in_btd, in_vid,
\* at the centre pixel that stands out or at a corner, over land.
S1NanInit ==
    /\ \E hot \in {<<2, 2>>}, bad \in FocusPixels, ch \in NanChannels :
        /\ \E m \in MirPairs :
              in_mir = NanAt(FloatGrid(Patterned(m[1], m[2], hot)), ch = "mir", bad)
        /\ \E bg \in BtdVals, fg \in BtdVals :
              in_btd = NanAt(FloatGrid(Patterned(bg, fg, hot)), ch = "btd", bad)
        /\ \E v \in VidPairs :
              in_vid = NanAt(FloatGrid(Patterned(v[1], v[2], hot)), ch = "vid", bad)
    /\ in_lsm = [p \in Pixels |-> lsm_land_val]
    /\ \E s \in SzaVals : in_sza = [p \in Pixels |-> s]
    /\ ksizes \in KsizeLists
    /\ do_lsm_mask = TRUE
    /\ pass_thresh \in PassThreshs
    /\ pc = "start" /\ kidx = 1
    /\ btd_kern_thr = NaNGrid /\ mir_thresh = NaNGrid /\ btd_thresh = NaNGrid
    /\ main_testarr = ZeroGrid /\ filt = <<>> /\ pfp = ZeroGrid

InitStage1Nan == S1NanInit /\ UIdle /\ S5Idle /\ XIdle

\* Lines 152-155: the kernel threshold, the SZA adjusted thresholds, the zero counter.
Start ==
    /\ pc = "start"
    /\ btd_kern_thr' = BtdKernThr(in_sza)
    /\ mir_thresh' = [p \in Pixels |-> SetInitialThresholds(in_sza[p], DefaultThresh).mir_thresh]
    /\ btd_thresh' = [p \in Pixels |-> SetInitialThresholds(in_sza[p], DefaultThresh).btd_thresh]
    /\ main_testarr' = ZeroGrid
    /\ pc' = "loop"
    /\ UNCHANGED <<in_mir, in_btd, in_vid, in_sza, in_lsm, ksizes, do_lsm_mask,
                   pass_thresh, kidx, filt, pfp, uvars, s5vars, xvars>>

\* Lines 158-161, one pass of the loop for a size _make_kern knows.
KernelStep ==
    /\ pc = "loop" /\ kidx <= Len(ksizes)
    /\ MakeKern(ksizes[kidx]).ok
    /\ LET f == DoApplyStg1bKern2(in_btd, ksizes[kidx])
       IN  /\ filt' = Append(filt, f)
           /\ main_testarr' = KernelVote(main_testarr, f, btd_kern_thr)
    /\ kidx' = kidx + 1
    /\ UNCHANGED <<in_mir, in_btd, in_vid, in_sza, in_lsm, ksizes, do_lsm_mask,
                   pass_thresh, pc, btd_kern_thr, mir_thresh, btd_thresh, pfp,
                   uvars, s5vars, xvars>>

\* Line 159 -> 119 -> 78: _make_kern raises ValueError, which nothing catches, so
\* stage1_tests ends without a return value.
KernelRaise ==
    /\ pc = "loop" /\ kidx <= Len(ksizes)
    /\ ~MakeKern(ksizes[kidx]).ok
    /\ pc' = "error"
    /\ UNCHANGED <<in_mir, in_btd, in_vid, in_sza, in_lsm, ksizes, do_lsm_mask,
                   pass_thresh, kidx, btd_kern_thr, mir_thresh, btd_thresh,
                   main_testarr, filt, pfp, uvars, s5vars, xvars>>

\* Line 163, reached when the loop is exhausted.
MirStep ==
    /\ pc = "loop" /\ kidx > Len(ksizes)
    /\ main_testarr' = MirTest(main_testarr, in_mir, mir_thresh)
    /\ pc' = "btd"
    /\ UNCHANGED <<in_mir, in_btd, in_vid, in_sza, in_lsm, ksizes, do_lsm_mask,
                   pass_thresh, kidx, btd_kern_thr, mir_thresh, btd_thresh, filt, pfp,
                   uvars, s5vars, xvars>>

\* Line 164.
BtdStep ==
    /\ pc = "btd"
    /\ main_testarr' = BtdTest(main_testarr, in_btd, btd_thresh)
    /\ pc' = "lsm"
    /\ UNCHANGED <<in_mir, in_btd, in_vid, in_sza, in_lsm, ksizes, do_lsm_mask,
                   pass_thresh, kidx, btd_kern_thr, mir_thresh, btd_thresh, filt, pfp,
                   uvars, s5vars, xvars>>

\* Lines 167-168.
LsmStep ==
    /\ pc = "lsm"
    /\ main_testarr' = LsmGate(main_testarr, in_lsm, do_lsm_mask)
    /\ pc' = "vid"
    /\ UNCHANGED <<in_mir, in_btd, in_vid, in_sza, in_lsm, ksizes, do_lsm_mask,
                   pass_thresh, kidx, btd_kern_thr, mir_thresh, btd_thresh, filt, pfp,
                   uvars, s5vars, xvars>>

\* Line 171.
VidStep ==
    /\ pc = "vid"
    /\ main_testarr' = VidGate(main_testarr, in_vid)
    /\ pc' = "pfp"
    /\ UNCHANGED <<in_mir, in_btd, in_vid, in_sza, in_lsm, ksizes, do_lsm_mask,
                   pass_thresh, kidx, btd_kern_thr, mir_thresh, btd_thresh, filt, pfp,
                   uvars, s5vars, xvars>>

\* Lines 173-178: the candidate mask is built and returned.
Return ==
    /\ pc = "pfp"
    /\ pfp' = MakePfp(main_testarr, pass_thresh)
    /\ pc' = "done"
    /\ UNCHANGED <<in_mir, in_btd, in_vid, in_sza, in_lsm, ksizes, do_lsm_mask,
                   pass_thresh, kidx, btd_kern_thr, mir_thresh, btd_thresh,
                   main_testarr, filt, uvars, s5vars, xvars>>

Next ==
    \/ Start
    \/ KernelStep
    \/ KernelRaise
    \/ MirStep
    \/ BtdStep
    \/ LsmStep
    \/ VidStep
    \/ Return

Spec == Init /\ [][Next]_vars

SpecStage1Nan == InitStage1Nan /\ [][Next]_vars

(***************************************************************************)
(* Properties of stage1_tests.                                             *)
(***************************************************************************)
Supported == {3, 5, 7, 9, 11}

MirFails(p) == RLt(in_mir[p], mir_thresh[p])
BtdFails(p) == RLt(in_btd[p], btd_thresh[p])

\* Whether pixel p passed the kernel test of the i-th filtered grid.
KernelPassed(i, p) == GeStdTimes(filt[i].ker[p], filt[i].var, btd_kern_thr[p])

\* The number of kernel tests pixel p passed.
Votes(p) == Cardinality({i \in 1..Len(filt) : KernelPassed(i, p)})

\* Whether p passes the land-sea gate and the vis_diff gate.
PassesGates(p) == (do_lsm_mask => in_lsm[p] = lsm_land_val) /\ RGe(in_vid[p], RInt(0))

\* C1 as claimed: for every pass threshold >= 1, a pixel that fails the MIR test
\* or the BTD test is 0 in the returned mask, whatever its kernel votes.
C1_HardAndAnyThreshold ==
    pc = "done" =>
        \A p \in Pixels : (MirFails(p) \/ BtdFails(p)) => pfp[p] = 0

\* C1 amended: a pixel that fails the BTD test is 0 in the returned mask for every
\* pass threshold >= 1, and a pixel that fails the MIR test is 0 for every pass
\* threshold >= 2; its counter is at most 1 (the BTD test adds 1 after the reset).
C1_HardAndFromTwo ==
    pc = "done" =>
        \A p \in Pixels :
            /\ BtdFails(p) => pfp[p] = 0
            /\ MirFails(p) => main_testarr[p] <= 1
            /\ (MirFails(p) /\ pass_thresh >= 2) => pfp[p] = 0

\* A pixel that fails the MIR test, passes the BTD test and the gates, and holds
\* as many kernel votes as the pass threshold asks for, is not flagged.
C1_Witness ==
    /\ pc = "done" /\ pass_thresh >= 2
    /\ \E p \in Pixels :
        /\ MirFails(p) /\ ~BtdFails(p) /\ PassesGates(p)
        /\ Votes(p) >= pass_thresh
        /\ pfp[p] = 0

\* C3: a failed kernel test does not reset the counter: for a pixel that passes
\* the MIR test, the BTD test and both gates, the final counter is 2 plus the
\* number of kernel tests it passed, and it is flagged exactly when that counter
\* reaches the pass threshold.
C3_CounterIsTwoPlusVotes ==
    pc = "done" =>
        \A p \in Pixels :
            (~MirFails(p) /\ ~BtdFails(p) /\ PassesGates(p)) =>
                /\ main_testarr[p] = 2 + Votes(p)
                /\ (pfp[p] = 1) <=> (main_testarr[p] >= pass_thresh)

\* A pixel that passes everything but failed a kernel test after passing one.
C3_Witness ==
    /\ pc = "done"
    /\ \E p \in Pixels :
        /\ ~MirFails(p) /\ ~BtdFails(p) /\ PassesGates(p)
        /\ \E i, j \in 1..Len(filt) : i < j /\ KernelPassed(i, p) /\ ~KernelPassed(j, p)
        /\ main_testarr[p] = 3

RECURSIVE LoopCounter(_)
\* The counter grid as the first n passes of the kernel loop leave it.
LoopCounter(n) ==
    IF n = 0 THEN ZeroGrid ELSE KernelVote(LoopCounter(n - 1), filt[n], btd_kern_thr)

\* Land-sea masks to compare a run against.
OtherLsm ==
    {Patterned(l[1], l[2], hot) :
        l \in {<<0, 0>>, <<2, 2>>, <<2, 0>>, <<1, 2>>}, hot \in FocusPixels}

\* C4: a pixel with vis_diff < 0 is never flagged; with do_lsm_mask a pixel that
\* is not land is never flagged; without do_lsm_mask the returned mask is the one
\* any other land-sea mask gives.
C4_PostVoteGates ==
    pc = "done" =>
        /\ \A p \in Pixels : RLt(in_vid[p], RInt(0)) => pfp[p] = 0
        /\ do_lsm_mask => \A p \in Pixels : in_lsm[p] # lsm_land_val => pfp[p] = 0
        /\ ~do_lsm_mask =>
              LET arr == Tab(LoopCounter(Len(filt)))
              IN  \A l \in OtherLsm :
                      pfp = AfterLoop(arr, in_mir, in_btd, in_vid, l, do_lsm_mask,
                                      mir_thresh, btd_thresh, pass_thresh)

\* A pixel with enough votes that only the land-sea gate keeps out of the mask.
C4_Witness ==
    /\ pc = "done" /\ do_lsm_mask
    /\ \E p \in Pixels :
        /\ in_lsm[p] # lsm_land_val /\ RGe(in_vid[p], RInt(0))
        /\ ~MirFails(p) /\ ~BtdFails(p)
        /\ 2 + Votes(p) >= pass_thresh
        /\ pfp[p] = 0

\* C6: a kernel size outside {3, 5, 7, 9, 11} makes stage1_tests fail: no mask is
\* returned and no filtered grid is made for it, also after valid sizes; nothing
\* after the loop runs.
C6_UnsupportedSizeFails ==
    /\ (\E i \in 1..Len(ksizes) : ksizes[i] \notin Supported) =>
           /\ pc \in {"start", "loop", "error"}
           /\ pfp = ZeroGrid
    /\ pc = "error" =>
           /\ ksizes[kidx] \notin Supported
           /\ Len(filt) = kidx - 1
           /\ \A i \in 1..Len(filt) : filt[i].ksize \in Supported
    /\ \A i \in 1..Len(filt) : filt[i].ksize = ksizes[i] /\ ksizes[i] \in Supported
    /\ pc # "start" => \A i \in 1..(kidx - 1) : ksizes[i] \in Supported

\* The error is raised on the second size, after a valid first one was filtered.
C6_Witness ==
    pc = "error" /\ kidx = 2 /\ Len(filt) = 1 /\ ksizes[1] \in Supported

\* Whether the footprint of a kernel of size k centred on p leaves the grid.
IsBorder(p, k) ==
    LET h == k \div 2
    IN  p[1] <= h \/ p[1] > GridN - h \/ p[2] <= h \/ p[2] > GridN - h

\* C7 as claimed: a filtered pixel whose kernel footprint leaves the grid is
\* invalid, and never passes the kernel test.
C7_BorderInvalid ==
    \A i \in 1..Len(filt) : \A p \in Pixels :
        IsBorder(p, filt[i].ksize) => IsNaN(filt[i].ker[p]) /\ ~KernelPassed(i, p)

\* The index nearest to i on the grid.
Clamp(i) == IF i < 1 THEN 1 ELSE IF i > GridN THEN GridN ELSE i

\* C7 amended: the grid is padded by reflection, so every filtered pixel, border
\* or not, has a finite value; for the 3x3 kernel it is 10 times the pixel minus
\* the sum of the 3x3 window with the edge cells repeated.
C7_BorderReflected ==
    \A i \in 1..Len(filt) : \A p \in Pixels :
        /\ IsFinite(filt[i].ker[p])
        /\ filt[i].ksize = 3 =>
              filt[i].ker[p] =
                  RInt(10 * in_btd[p][1]
                       - SumSeq([a \in 1..3 |->
                             SumSeq([b \in 1..3 |->
                                 in_btd[<<Clamp(p[1] + a - 2),
                                          Clamp(p[2] + b - 2)>>][1]], 3)], 3))

\* A corner pixel, set apart from its background, passes a kernel test.
C7_Witness ==
    /\ Len(filt) >= 1
    /\ in_btd[<<1, 1>>] # in_btd[<<2, 2>>]
    /\ IsBorder(<<1, 1>>, filt[1].ksize)
    /\ KernelPassed(1, <<1, 1>>)
    /\ pc = "done" /\ pfp[<<1, 1>>] = 1

(***************************************************************************)
(* Single calls of set_initial_thresholds and of _make_kern.               *)
(***************************************************************************)
\* Parameters for which the linear terms meet their floors at whole angles.
AltThresh ==
    [mir_thresh_bt      |-> RInt(310),
     mir_thresh_sza_adj |-> Rat(-1, 2),
     mir_thresh_limit   |-> RInt(280),
     btd_thresh_bt      |-> RInt(2),
     btd_thresh_sza_adj |-> Rat(-1, 100),
     btd_thresh_limit   |-> RInt(1)]

ThreshConfigs == {DefaultThresh, AltThresh}

UInit ==
    /\ thr_sza \in 0..MaxSza /\ thr_cfg \in ThreshConfigs
    /\ thr_out = [set |-> FALSE, mir_thresh |-> NaN, btd_thresh |-> NaN]
    /\ mk_ksize \in 0..MaxKsize
    /\ mk_out = [set |-> FALSE, ok |-> FALSE, arr |-> <<>>, den |-> 0]

InitUnits == S1Idle /\ UInit /\ S5Idle /\ XIdle

\* mir_thresh, btd_thresh = set_initial_thresholds(sza, ...)
CallSetInitialThresholds ==
    /\ ~thr_out.set
    /\ LET r == SetInitialThresholds(thr_sza, thr_cfg)
       IN  thr_out' = [set |-> TRUE, mir_thresh |-> r.mir_thresh, btd_thresh |-> r.btd_thresh]
    /\ UNCHANGED <<thr_sza, thr_cfg, mk_ksize, mk_out, s1vars, s5vars, xvars>>

\* _make_kern(ksize): the kernel, or the raised ValueError (ok = FALSE).
CallMakeKern ==
    /\ ~mk_out.set
    /\ LET k == MakeKern(mk_ksize)
       IN  mk_out' = [set |-> TRUE, ok |-> k.ok, arr |-> k.arr, den |-> k.den]
    /\ UNCHANGED <<thr_sza, thr_cfg, thr_out, mk_ksize, s1vars, s5vars, xvars>>

NextUnits ==
    \/ CallSetInitialThresholds
    \/ CallMakeKern

SpecUnits == InitUnits /\ [][NextUnits]_vars

RMax(x, y) == IF RLt(x, y) THEN y ELSE x

\* C2: each threshold is the larger of its floor and its linear term in sza: it
\* is never below the floor, it is the floor when the linear term is below the
\* floor, and the linear term otherwise.
C2_ThresholdsClampedAtFloor ==
    thr_out.set =>
        LET mlin == RAdd(thr_cfg.mir_thresh_bt, RMul(thr_cfg.mir_thresh_sza_adj, RInt(thr_sza)))
            blin == RAdd(thr_cfg.btd_thresh_bt, RMul(thr_cfg.btd_thresh_sza_adj, RInt(thr_sza)))
        IN  /\ thr_out.mir_thresh = RMax(thr_cfg.mir_thresh_limit, mlin)
            /\ thr_out.btd_thresh = RMax(thr_cfg.btd_thresh_limit, blin)
            /\ RGe(thr_out.mir_thresh, thr_cfg.mir_thresh_limit)
            /\ RGe(thr_out.btd_thresh, thr_cfg.btd_thresh_limit)
            /\ RLt(mlin, thr_cfg.mir_thresh_limit) => thr_out.mir_thresh = thr_cfg.mir_thresh_limit
            /\ RLt(blin, thr_cfg.btd_thresh_limit) => thr_out.btd_thresh = thr_cfg.btd_thresh_limit
            /\ RGe(mlin, thr_cfg.mir_thresh_limit) => thr_out.mir_thresh = mlin
            /\ RGe(blin, thr_cfg.btd_thresh_limit) => thr_out.btd_thresh = blin

\* With the default parameters, an angle at which the MIR threshold sits on its
\* floor while the BTD threshold is still its linear term.
C2_Witness ==
    /\ thr_out.set /\ thr_cfg = DefaultThresh
    /\ thr_out.mir_thresh = RInt(280)
    /\ RGt(thr_out.btd_thresh, RInt(1))

RECURSIVE RSumSeq(_, _)
\* The float sum s[1] + ... + s[n].
RSumSeq(s, n) == IF n = 0 THEN RInt(0) ELSE RAdd(s[n], RSumSeq(s, n - 1))

\* C5: for each size N in {3, 5, 7, 9, 11} the kernel is N x N, its unnormalised
\* centre is N*N and every other entry -1, the normaliser is their sum, which is
\* 1, and the entries of the returned kernel sum to exactly 1.
C5_KernelSumsToOne ==
    (mk_out.set /\ mk_ksize \in Supported) =>
        LET n == mk_ksize
            c == (n + 1) \div 2
            k == [ok |-> mk_out.ok, arr |-> mk_out.arr, den |-> mk_out.den]
        IN  /\ mk_out.ok
            /\ Len(mk_out.arr) = n
            /\ \A i \in 1..n : Len(mk_out.arr[i]) = n
            /\ \A i \in 1..n : \A j \in 1..n :
                   mk_out.arr[i][j] = IF i = c /\ j = c THEN n * n ELSE -1
            /\ mk_out.den = 1
            /\ RSumSeq([i \in 1..n |-> RSumSeq([j \in 1..n |-> KernEntry(k, i, j)], n)], n)
                   = RInt(1)

\* The largest kernel has been made.
C5_Witness == mk_out.set /\ mk_out.ok /\ mk_ksize = 11 /\ Len(mk_out.arr) = 11

(***************************************************************************)
(* do_stage5: the stage 5 confidence.                                      *)
(***************************************************************************)
\* Faulty variant of comp_stat: the upper clip is left out.
CompStatNoUpper(x, a, b) ==
    LET out == RDiv(RSub(x, a), RSub(b, a))
    IN  Where(RLt(x, a), RInt(0), out)

\* comp_stat(x, a, b) on one element.
CompStat(x, a, b) ==
    LET out == RDiv(RSub(x, a), RSub(b, a))
        out1 == Where(RLt(x, a), RInt(0), out)
    IN  Where(RGt(x, b), RInt(1), out1)

RECURSIVE Pow5Ge(_, _, _)
\* The least r >= from with (r / RootScale)^5 >= n / d, for n >= 0 and d > 0.
Pow5Ge(from, n, d) ==
    IF from * from * from * from * from * d
           >= n * RootScale * RootScale * RootScale * RootScale * RootScale
    THEN from
    ELSE Pow5Ge(from + 1, n, d)

\* np.power(x, 1./5.): NaN for NaN and for negative x, inf for inf, and for a
\* finite x >= 0 the fifth root rounded up to a multiple of 1/RootScale.
Root5(x) ==
    IF IsNaN(x) \/ x[1] < 0 THEN NaN
    ELSE IF IsInf(x) THEN x
    ELSE Rat(Pow5Ge(0, x[1], x[2]), RootScale)

\* The statements of do_stage5 on one pixel (lines 427-464): the five components
\* and the confidence.
DoStage5(in) ==
    LET nig_sza == RInt(60)
        sza_thr == Where(RGt(RInt(in.sza), nig_sza), nig_sza, RInt(in.sza))
        z4 == RDiv(RSub(RInt(in.bt_mir), RInt(in.mea_mir)), RInt(in.std_mir))
        zdt == RDiv(RSub(RInt(in.btd), RInt(in.mea_btd)), RInt(in.std_btd))
        min_c1_day == RInt(287)
        min_c1_nig == RInt(280)
        max_c1_day == RInt(327)
        max_c1_nig == RInt(310)
        min_c2 == Rat(9, 10)
        max_c2 == RInt(6)
        min_c3_day == RInt(2)
        min_c3_nig == Rat(15, 10)
        max_c3_day == RInt(6)
        max_c3_nig == RInt(5)
        min_c1 == RAdd(min_c1_day, RMul(RDiv(RSub(min_c1_nig, min_c1_day), nig_sza), sza_thr))
        max_c1 == RAdd(max_c1_day, RMul(RDiv(RSub(max_c1_nig, max_c1_day), nig_sza), sza_thr))
        min_c3 == RAdd(min_c3_day, RMul(RDiv(RSub(min_c3_nig, min_c3_day), nig_sza), sza_thr))
        max_c3 == RAdd(max_c3_day, RMul(RDiv(RSub(max_c3_nig, max_c3_day), nig_sza), sza_thr))
        c1 == CompStat(RInt(in.bt_mir), min_c1, max_c1)
        c2 == CompStat(z4, min_c2, max_c2)
        c3 == CompStat(zdt, min_c3, max_c3)
        c4 == RSub(RInt(1), CompStat(RDiv(RInt(in.ncld), RDiv(RInt(in.nwin), RInt(2))),
                                     RInt(0), RInt(1)))
        c5 == RSub(RInt(1), CompStat(RDiv(RInt(in.nwat), RDiv(RInt(in.nwin), RInt(2))),
                                     RInt(0), RInt(1)))
    IN  [c1 |-> c1, c2 |-> c2, c3 |-> c3, c4 |-> c4, c5 |-> c5,
         min_c1 |-> min_c1, z4 |-> z4,
         conf |-> Root5(RMul(RMul(RMul(RMul(c1, c2), c3), c4), c5))]

\* Per pixel inputs: window counts (n_window, n_cloud, n_water), with (0, 0, 0)
\* the sentinel of a pixel without window statistics.
WindowCounts == {<<0, 0, 0>>, <<9, 0, 0>>, <<9, 2, 1>>, <<8, 4, 0>>, <<9, 0, 5>>}

PixelInputs ==
    [btd : {1, 7, 12}, mea_btd : {1}, std_btd : {0, 2},
     bt_mir : {270, 300, 306, 340}, mea_mir : {300}, std_mir : {0, 2},
     sza : {30, 90}, nwin : {0, 8, 9}, ncld : {0, 2, 4}, nwat : {0, 1, 5}]

FirstPixelInputs == {in \in PixelInputs : <<in.nwin, in.ncld, in.nwat>> \in WindowCounts}

\* The inputs of the pixels after the first: a hot pixel with clean statistics,
\* a pixel without window statistics, and a pixel equal to a flat background.
OtherPixelInputs ==
    {[btd |-> 12, mea_btd |-> 1, std_btd |-> 2, bt_mir |-> 340, mea_mir |-> 300,
      std_mir |-> 2, sza |-> 30, nwin |-> 9, ncld |-> 0, nwat |-> 0],
     [btd |-> 12, mea_btd |-> 1, std_btd |-> 2, bt_mir |-> 340, mea_mir |-> 300,
      std_mir |-> 2, sza |-> 30, nwin |-> 0, ncld |-> 0, nwat |-> 0],
     [btd |-> 1, mea_btd |-> 1, std_btd |-> 0, bt_mir |-> 300, mea_mir |-> 300,
      std_mir |-> 0, sza |-> 90, nwin |-> 9, ncld |-> 0, nwat |-> 0]}

S5Pixels == 1..NPix

S5Init ==
    /\ s5_in \in [S5Pixels -> FirstPixelInputs \cup OtherPixelInputs]
    /\ \A i \in S5Pixels : i > 1 => s5_in[i] \in OtherPixelInputs
    /\ s5_comp = <<>> /\ s5_conf = <<>> /\ s5_pc = "call"

InitStage5 == S1Idle /\ UIdle /\ S5Init /\ XIdle

\* outarr_conf = do_stage5(...): every pixel is scored in one array expression.
CallDoStage5 ==
    /\ s5_pc = "call"
    /\ s5_comp' = [i \in S5Pixels |-> DoStage5(s5_in[i])]
    /\ s5_conf' = [i \in S5Pixels |-> DoStage5(s5_in[i]).conf]
    /\ s5_pc' = "done"
    /\ UNCHANGED <<s5_in, s1vars, uvars, xvars>>

NextStage5 == CallDoStage5

SpecStage5 == InitStage5 /\ [][NextStage5]_vars

(***************************************************************************)
(* Properties of do_stage5.                                                *)
(***************************************************************************)
\* C8 as claimed: for all finite inputs, zero standard deviations and an empty
\* window included, the confidence is a number in [0, 1], never NaN or infinite.
C8_ConfidenceInUnitInterval ==
    s5_pc = "done" =>
        \A i \in S5Pixels :
            /\ IsFinite(s5_conf[i])
            /\ RGe(s5_conf[i], RInt(0))
            /\ RLe(s5_conf[i], RInt(1))

\* Whether pixel i carries the sentinel of unavailable window statistics.
IsSentinel(i) == s5_in[i].nwin = 0 /\ s5_in[i].ncld = 0 /\ s5_in[i].nwat = 0

\* C9 as claimed: a pixel without window statistics (n_window = n_cloud =
\* n_water = 0) gets confidence exactly 0, and every other pixel gets the
\* confidence of its own inputs.
C9_SentinelGivesZero ==
    s5_pc = "done" =>
        \A i \in S5Pixels :
            /\ IsSentinel(i) => s5_conf[i] = RInt(0)
            /\ ~IsSentinel(i) => s5_conf[i] = DoStage5(s5_in[i]).conf

\* C10 as claimed: the confidence is exactly 0 whenever a component is 0: when
\* mir_bt is below the lower c1 bound, when z_mir < 0.9, or when n_cloud or
\* n_water is at least n_window/2 with n_window > 0.
C10_ZeroComponentGivesZero ==
    s5_pc = "done" =>
        \A i \in S5Pixels :
            LET c == s5_comp[i]
                in == s5_in[i]
            IN  (\/ c.c1 = RInt(0) \/ c.c2 = RInt(0) \/ c.c3 = RInt(0)
                 \/ c.c4 = RInt(0) \/ c.c5 = RInt(0)
                 \/ RLt(RInt(in.bt_mir), c.min_c1)
                 \/ RLt(c.z4, Rat(9, 10))
                 \/ (in.nwin > 0 /\ (2 * in.ncld >= in.nwin \/ 2 * in.nwat >= in.nwin)))
                => s5_conf[i] = RInt(0)

(***************************************************************************)
(* calc_frp(data_dict).                                                    *)
(***************************************************************************)
\* Faulty variant of the lookup: a missing platform gets a default constant
\* (as dict.get(name, 1) would give) instead of a KeyError.
RadToBtDefault(consts, platform) ==
    IF platform \in DOMAIN consts.rad_to_bt_dict
    THEN [ok |-> TRUE, val |-> consts.rad_to_bt_dict[platform]]
    ELSE [ok |-> TRUE, val |-> RInt(1)]

\* a_val = PYFc.rad_to_bt_dict[data_dict['platform_name']]; ok = FALSE is the
\* KeyError of a platform the dictionary does not hold.
RadToBt(consts, platform) ==
    IF platform \in DOMAIN consts.rad_to_bt_dict
    THEN [ok |-> TRUE, val |-> consts.rad_to_bt_dict[platform]]
    ELSE [ok |-> FALSE, val |-> NaN]

\* (data_dict['pix_area'] * PYFc.sigma / a_val) * (data_dict['MIR__BT'] - data_dict['mean_mir'])
FrpLinear(pix_area, sigma, a_val, mir_bt, mean_mir) ==
    RMul(RDiv(RMul(pix_area, sigma), a_val), RSub(mir_bt, mean_mir))

\* Faulty variant of the background gate: mean_mir >= 0 lets a zero background through.
MeanMirGateNonNeg(mean_mir, frp) == Where(RGe(mean_mir, RInt(0)), frp, RInt(0))

\* frp_est = xr.where(data_dict['mean_mir'] > 0, frp_est, 0)
MeanMirGate(mean_mir, frp) == Where(RGt(mean_mir, RInt(0)), frp, RInt(0))

\* frp_est = xr.where(data_dict['fire_dets'] > 0, frp_est, 0)
FireDetsGate(fire_dets, frp) == Where(fire_dets > 0, frp, RInt(0))

FrpPixels == 1..NPix

\* data_dict[key] = val
DictSet(d, key, val) == (key :> val) @@ d

\* calc_frp for a platform with a calibration constant: the dictionary it returns.
CalcFrp(d, consts) ==
    LET a_val == RadToBt(consts, d["platform_name"]).val
        frp_est == [i \in FrpPixels |->
                       FireDetsGate(d["fire_dets"][i],
                           MeanMirGate(d["mean_mir"][i],
                               FrpLinear(d["pix_area"][i], consts.sigma, a_val,
                                         d["MIR__BT"][i], d["mean_mir"][i])))]
    IN  DictSet(d, "frp_est", frp_est)

\* The values the two constants and the dictionary entries are drawn from.
SigmaVals == {Rat(567, 10000)}
RadToBtDicts ==
    {("Himawari-8" :> Rat(3, 1000)) @@ ("MTG-I1" :> Rat(5, 1000)),
     ("Himawari-8" :> Rat(3, 1000))}
PlatformNames == {"Himawari-8", "MTG-I1", "GOES-16"}
PixAreaVals == {RInt(4), Rat(9, 2)}
MirBtVals == {RInt(290), RInt(340)}
MeanMirVals == {NaN, RInt(-1), RInt(0), RInt(300)}
FireDetsVals == {0, 1}

FrpInit ==
    /\ frp_consts \in [sigma : SigmaVals, rad_to_bt_dict : RadToBtDicts]
    /\ \E name \in PlatformNames, area \in PixAreaVals,
          mir \in [FrpPixels -> MirBtVals], mean \in [FrpPixels -> MeanMirVals],
          dets \in [FrpPixels -> FireDetsVals] :
            frp_arg = [platform_name |-> name, pix_area |-> [i \in FrpPixels |-> area],
                       MIR__BT |-> mir, mean_mir |-> mean, fire_dets |-> dets]
    /\ data_dict = frp_arg
    /\ frp_pc = "call"

InitFrp == S1Idle /\ UIdle /\ S5Idle /\ FrpInit /\ NtIdle /\ BgIdle /\ WsIdle

\* Lines 486-493 for a platform rad_to_bt_dict holds.
CallCalcFrp ==
    /\ frp_pc = "call"
    /\ RadToBt(frp_consts, data_dict["platform_name"]).ok
    /\ data_dict' = CalcFrp(data_dict, frp_consts)
    /\ frp_pc' = "done"
    /\ UNCHANGED <<frp_consts, frp_arg, s1vars, uvars, s5vars, ntvars, bgvars, wsvars>>

\* Line 486 raises KeyError: nothing after it runs.
CalcFrpRaise ==
    /\ frp_pc = "call"
    /\ ~RadToBt(frp_consts, data_dict["platform_name"]).ok
    /\ frp_pc' = "error"
    /\ UNCHANGED <<frp_consts, frp_arg, data_dict, s1vars, uvars, s5vars, ntvars, bgvars, wsvars>>

NextFrp ==
    \/ CallCalcFrp
    \/ CalcFrpRaise

SpecFrp == InitFrp /\ [][NextFrp]_vars

(***************************************************************************)
(* Properties of calc_frp.                                                 *)
(***************************************************************************)
\* C11: frp_est is exactly 0 at every pixel where fire_dets = 0 or mean_mir <= 0
\* or mean_mir is NaN; at every other pixel it is
\* pix_area * sigma / a_val * (mir_bt - mean_mir).
C11_FrpGated ==
    frp_pc = "done" =>
        /\ "frp_est" \in DOMAIN data_dict
        /\ \A i \in FrpPixels :
            LET mean == frp_arg.mean_mir[i]
                a_val == frp_consts.rad_to_bt_dict[frp_arg.platform_name]
            IN  IF frp_arg.fire_dets[i] = 0 \/ RLe(mean, RInt(0)) \/ IsNaN(mean)
                THEN data_dict["frp_est"][i] = RInt(0)
                ELSE data_dict["frp_est"][i] =
                         RMul(RDiv(RMul(frp_arg.pix_area[i], frp_consts.sigma), a_val),
                              RSub(frp_arg.MIR__BT[i], mean))

\* One pixel is gated by a zero background, the other carries a positive FRP.
C11_Witness ==
    /\ frp_pc = "done"
    /\ frp_arg.fire_dets[1] = 1 /\ frp_arg.mean_mir[1] = RInt(0)
    /\ frp_arg.MIR__BT[1] = RInt(340)
    /\ data_dict["frp_est"][1] = RInt(0)
    /\ frp_arg.fire_dets[2] = 1 /\ RGt(data_dict["frp_est"][2], RInt(0))

\* C12: for a platform without a calibration constant calc_frp raises before it
\* computes anything: it never returns, no 'frp_est' entry is added and every
\* entry of data_dict keeps the value the caller passed.
C12_MissingConstantFails ==
    frp_arg.platform_name \notin DOMAIN frp_consts.rad_to_bt_dict =>
        /\ frp_pc \in {"call", "error"}
        /\ "frp_est" \notin DOMAIN data_dict
        /\ data_dict = frp_arg

\* The call has failed on a dictionary that holds a detection.
C12_Witness ==
    /\ frp_pc = "error"
    /\ frp_arg.platform_name \notin DOMAIN frp_consts.rad_to_bt_dict
    /\ frp_arg.fire_dets[1] = 1
    /\ data_dict = frp_arg

(***************************************************************************)
(* compute_background_rad(indata, insza, sza_thr, rad_sum_thr, hist_range). *)
(***************************************************************************)
\* np.histogram(tmp, bins=800, range=hist_range)
nbins == 800
hist_range == <<RInt(0), RInt(2)>>

\* grid.ravel(): the cells in row-major order.
Ravel(grid) ==
    [k \in 1..(GridN * GridN) |-> grid[<<((k - 1) \div GridN) + 1, ((k - 1) % GridN) + 1>>]]

RECURSIVE MaskSeq(_, _, _)
\* vals[keep]: the first n entries of vals whose keep entry is TRUE, in order.
MaskSeq(vals, keep, n) ==
    IF n = 0 THEN <<>>
    ELSE IF keep[n] THEN Append(MaskSeq(vals, keep, n - 1), vals[n])
    ELSE MaskSeq(vals, keep, n - 1)

\* tmp = indata.data.ravel(); tmp = tmp[insza.data.ravel() > sza_thr]; tmp = tmp[tmp > 0]
SelectNightValid(indata, insza, sza_thr) ==
    LET vals == Ravel(indata)
        szas == Ravel(insza)
        night == MaskSeq(vals, [k \in 1..(GridN * GridN) |-> szas[k] > sza_thr], GridN * GridN)
    IN  MaskSeq(night, [k \in 1..Len(night) |-> RGt(night[k], RInt(0))], Len(night))

\* np.histogram counts a value v with lo <= v <= hi.
InRange(v) == RGe(v, hist_range[1]) /\ RLe(v, hist_range[2])

\* The bin of a value in range: nbins equal bins, the last one closed on the right.
BinOf(v) ==
    IF v = hist_range[2] THEN nbins - 1
    ELSE LET q == RMul(RDiv(RSub(v, hist_range[1]), RSub(hist_range[2], hist_range[1])),
                       RInt(nbins))
         IN  q[1] \div q[2]

\* hist[i] before the normalisation, and np.sum(hist).
HistCount(tmp, i) == Cardinality({k \in 1..Len(tmp) : InRange(tmp[k]) /\ BinOf(tmp[k]) = i})
HistTotal(tmp) == Cardinality({k \in 1..Len(tmp) : InRange(tmp[k])})

\* hist = hist / np.sum(hist), entry i: NaN (0/0) when the histogram is empty.
Hist(tmp, i) == RDiv(RInt(HistCount(tmp, i)), RInt(HistTotal(tmp)))

\* np.nanmax(hist): the largest entry of hist / np.sum(hist) that is not NaN, NaN
\* when there is none.  The bin of each value is worked out once, and equal
\* counts are divided once.
NanMaxHist(tmp) ==
    LET b == Tab([k \in 1..Len(tmp) |-> IF InRange(tmp[k]) THEN BinOf(tmp[k]) ELSE -1])
        total == Cardinality({k \in 1..Len(tmp) : b[k] >= 0})
        counts == {Cardinality({k \in 1..Len(tmp) : b[k] = i}) : i \in 0..(nbins - 1)}
        vals == {RDiv(RInt(c), RInt(total)) : c \in counts} \ {NaN}
    IN  IF vals = {} THEN NaN ELSE CHOOSE m \in vals : \A v \in vals : RLe(v, m)

\* if np.nanmax(hist) <= 0 or np.isnan(np.nanmax(hist))
HistDegenerate(tmp) ==
    LET m == NanMaxHist(tmp) IN RLe(m, RInt(0)) \/ IsNaN(m)

\* bins[i]: the left edge of bin i.
Bins(i) ==
    RAdd(hist_range[1],
         RMul(RInt(i), RDiv(RSub(hist_range[2], hist_range[1]), RInt(nbins))))

\* Faulty variant of the loop test: stops as soon as the threshold is met.
ExceedsOrMeets(cum, thr) == RGe(cum, thr)

\* if cum_sum > rad_sum_thr
Exceeds(cum, thr) == RGt(cum, thr)

\* The sentinel of a degenerate histogram.
bg_sentinel == -999

\* compute_background_rad returns ret: to line 254 of run_basic_night_detection,
\* or to a caller that called it directly.
BgReturnTo(ret) ==
    /\ bg_ret' = ret
    /\ IF bg_caller = "night"
       THEN thr_vis' = ret /\ nt_pc' = "thr"
       ELSE thr_vis' = thr_vis /\ nt_pc' = "bg_done"

\* Lines 199-215 for a histogram that is not degenerate.
BgStart ==
    /\ nt_pc = "bg_start"
    /\ LET tmp == SelectNightValid(bg_args.indata, bg_args.insza, bg_args.sza_thr)
       IN  /\ ~HistDegenerate(tmp)
           /\ bg_tmp' = tmp
    /\ cum_sum' = RInt(0)
    /\ bg_i' = 0
    /\ nt_pc' = "bg_loop"
    /\ UNCHANGED <<bg_caller, bg_args, bg_ret, nt_in, nt_heap, nt_opts, nt_call, thr_vis,
                   def_dets, out_dets, nt_ret, nt_ret1, s1vars, uvars, s5vars, frpvars, wsvars>>

\* Lines 199-212 for a degenerate histogram: return -999.
BgReturnSentinel ==
    /\ nt_pc = "bg_start"
    /\ LET tmp == SelectNightValid(bg_args.indata, bg_args.insza, bg_args.sza_thr)
       IN  /\ HistDegenerate(tmp)
           /\ bg_tmp' = tmp
    /\ BgReturnTo(RInt(bg_sentinel))
    /\ UNCHANGED <<bg_caller, bg_args, bg_i, cum_sum, nt_in, nt_heap, nt_opts, nt_call,
                   def_dets, out_dets, nt_ret, nt_ret1, s1vars, uvars, s5vars, frpvars, wsvars>>

\* Lines 216-219, one pass of the loop: the break, the next bin, or the end of
\* the range with i left at the last bin.
BgLoopStep ==
    /\ nt_pc = "bg_loop"
    /\ cum_sum' = RAdd(cum_sum, Hist(bg_tmp, bg_i))
    /\ IF Exceeds(cum_sum', bg_args.rad_sum_thr) \/ bg_i = nbins - 1
       THEN bg_i' = bg_i /\ nt_pc' = "bg_return"
       ELSE bg_i' = bg_i + 1 /\ nt_pc' = "bg_loop"
    /\ UNCHANGED <<bg_caller, bg_args, bg_tmp, bg_ret, nt_in, nt_heap, nt_opts, nt_call,
                   thr_vis, def_dets, out_dets, nt_ret, nt_ret1, s1vars, uvars, s5vars,
                   frpvars, wsvars>>

\* Line 222: return bins[i].
BgReturn ==
    /\ nt_pc = "bg_return"
    /\ BgReturnTo(Bins(bg_i))
    /\ UNCHANGED <<bg_caller, bg_args, bg_tmp, bg_i, cum_sum, nt_in, nt_heap, nt_opts,
                   nt_call, def_dets, out_dets, nt_ret, nt_ret1, s1vars, uvars, s5vars,
                   frpvars, wsvars>>

\* A direct call of compute_background_rad: three cells of the first row take
\* any of the radiances and angles below, the other cells are day cells.
BgCells == {<<1, 1>>, <<1, 2>>, <<1, 3>>}
BgRadVals == {NaN, RInt(0), Rat(1, 1000), Rat(1, 80), Rat(1, 50), RInt(3)}
BgSzaVals == {50, 100}
RadSumThrs == {Rat(99, 100), Rat(1, 2)}

BgGrid(f, other) == [p \in Pixels |-> IF p \in BgCells THEN f[p] ELSE other]

BgInit ==
    /\ bg_caller = "unit"
    /\ \E thr \in RadSumThrs :
        \/ \E r \in [BgCells -> BgRadVals], z \in [BgCells -> BgSzaVals] :
              bg_args = [indata |-> BgGrid(r, Rat(1, 1000)), insza |-> BgGrid(z, 50),
                         sza_thr |-> 97, rad_sum_thr |-> thr]
        \* a radiance on the upper edge of the histogram range
        \/ \E r2 \in {RInt(2), Rat(1, 1000)} :
              bg_args = [indata |-> BgGrid([p \in BgCells |->
                                               IF p = <<1, 1>> THEN RInt(2)
                                               ELSE IF p = <<1, 2>> THEN r2
                                               ELSE Rat(1, 1000)], Rat(1, 1000)),
                         insza |-> BgGrid([p \in BgCells |-> 100], 50),
                         sza_thr |-> 97, rad_sum_thr |-> thr]
    /\ bg_tmp = <<>> /\ bg_i = 0 /\ cum_sum = RInt(0) /\ bg_ret = NaN
    /\ nt_in = <<>> /\ nt_heap = <<>> /\ nt_opts = <<>> /\ nt_pc = "bg_start" /\ nt_call = 0
    /\ thr_vis = NaN /\ def_dets = "" /\ out_dets = "" /\ nt_ret = <<>> /\ nt_ret1 = <<>>

InitBgRad == S1Idle /\ UIdle /\ S5Idle /\ FrpIdle /\ BgInit /\ WsIdle

NextBgRad ==
    \/ BgStart
    \/ BgReturnSentinel
    \/ BgLoopStep
    \/ BgReturn

SpecBgRad == InitBgRad /\ [][NextBgRad]_vars

(***************************************************************************)
(* Properties of compute_background_rad.                                   *)
(***************************************************************************)
\* The cells the histogram counts: night cells with a positive radiance in range.
Counted ==
    {p \in Pixels : /\ bg_args.insza[p] > bg_args.sza_thr
                    /\ RGt(bg_args.indata[p], RInt(0))
                    /\ RLe(bg_args.indata[p], RInt(2))}

\* The bin [j/400, (j+1)/400) a radiance lies in, the last bin holding 2 as well.
BinIndex(v) == IF v = RInt(2) THEN 799 ELSE (400 * v[1]) \div v[2]

\* The cumulative normalised frequency of bins 0..j.
CumFreq(j) ==
    Rat(Cardinality({p \in Counted : BinIndex(bg_args.indata[p]) <= j}),
        Cardinality(Counted))

\* C14: the loop walks the bins upwards with cum_sum the cumulative frequency of
\* the bins before i, never above rad_sum_thr; the value returned is the left
\* edge i/400 of the first bin i whose cumulative frequency exceeds rad_sum_thr,
\* and -999 is returned exactly when no night cell with positive radiance lies
\* in the histogram range.
C14_FirstBinOverThreshold ==
    /\ nt_pc = "bg_loop" =>
           /\ bg_i \in 0..799
           /\ cum_sum = (IF bg_i = 0 THEN RInt(0) ELSE CumFreq(bg_i - 1))
           /\ RLe(cum_sum, bg_args.rad_sum_thr)
    /\ nt_pc = "bg_done" =>
           IF Counted = {} THEN bg_ret = RInt(-999)
           ELSE /\ bg_ret = Rat(bg_i, 400)
                /\ bg_ret # RInt(-999)
                /\ RGt(CumFreq(bg_i), bg_args.rad_sum_thr)
                /\ bg_i > 0 => RLe(CumFreq(bg_i - 1), bg_args.rad_sum_thr)

\* The threshold bin is neither the first nor the last occupied bin, and a day
\* cell and a cell above the range were left out.
C14_Witness ==
    /\ nt_pc = "bg_done"
    /\ bg_i = 5
    /\ \E p \in Counted : BinIndex(bg_args.indata[p]) < 5
    /\ \E p \in Counted : BinIndex(bg_args.indata[p]) > 5
    /\ bg_ret = Rat(1, 80)

(***************************************************************************)
(* run_basic_night_detection(in_vi2_rad, in_sza, in_vid, in_pfp, opts).    *)
(* The arrays are objects: nt_heap maps an object to its dtype and data,    *)
(* and the locals def_dets and out_dets name the object they are bound to.  *)
(***************************************************************************)
\* The default opts dictionary, one object shared by every call.
DefaultOpts ==
    [def_fire_rad_vis |-> Rat(1, 2), def_fire_rad_vid |-> Rat(1, 2),
     sza_thresh |-> 97, vid_thresh |-> Rat(2, 100)]

\* rad_sum_thr=0.99, the default line 254 leaves in place.
default_rad_sum_thr == Rat(99, 100)

\* np.nanmax(in_sza > opts['sza_thresh'])
AnyNight(sza, opts) == \E p \in Pixels : sza[p] > opts.sza_thresh

\* np.zeros_like(in_vi2_rad)
ZerosLike(obj) == [p \in DOMAIN obj.data |-> 0]

\* Faulty variant of the conversion: a view of the source array, not a new array.
AsTypeView(new, src) == src

\* (...).astype(np.uint8): the result is a new array object.
AsTypeNew(new, src) == new

\* np.ones((3, 3))
OnesKern == [ok |-> TRUE, arr |-> <<<<1, 1, 1>>, <<1, 1, 1>>, <<1, 1, 1>>>>, den |-> 1]

\* Faulty variant of the maximum filter: the centre cell is left out of the window.
MaximumFilterNoCentre(img) ==
    [p \in Pixels |->
        LET win == {img[<<Reflect(p[1] + dr), Reflect(p[2] + dc)>>] :
                        dr \in -1..1, dc \in -1..1} \ {img[p]}
        IN  IF win = {} THEN img[p] ELSE CHOOSE m \in win : \A v \in win : RLe(v, m)]

\* maximum_filter(in_vid.data, (3, 3)), default mode 'reflect'
MaximumFilter(img) ==
    [p \in Pixels |->
        LET win == {img[<<Reflect(p[1] + dr), Reflect(p[2] + dc)>>] :
                        dr \in -1..1, dc \in -1..1}
        IN  CHOOSE m \in win : \A v \in win : RLe(v, m)]

\* Lines 262-264 on the object ref: the definite detections.
DefDetsData(h, opts) ==
    LET d1 == [p \in Pixels |-> IF RGt(h["in_vi2_rad"].data[p], opts.def_fire_rad_vis) THEN 1 ELSE 0]
        d2 == [p \in Pixels |-> Where(RGt(h["in_vid"].data[p], opts.def_fire_rad_vid), d1[p], 0)]
    IN  [p \in Pixels |-> Where(h["in_sza"].data[p] > opts.sza_thresh, d2[p], 0)]

\* Lines 267-271: the candidates.
CandidatesData(h, opts, thr) ==
    LET o1 == [p \in Pixels |->
                  IF RGt(h["in_vi2_rad"].data[p], RMul(thr, RInt(2))) THEN 1 ELSE 0]
        o2 == [p \in Pixels |-> Where(RGt(h["in_vid"].data[p], opts.vid_thresh), o1[p], 0)]
    IN  [p \in Pixels |-> Where(h["in_pfp"].data[p] = 1, o2[p], 0)]

\* Lines 276-283: det_sum, det_max, det_pos and the mask they leave.
DedupData(out, vid) ==
    LET det_sum == Convolve(FloatGrid(out), OnesKern)
        det_max == MaximumFilter(vid)
        det_pos0 == [p \in Pixels |-> Where(det_sum[p] = RInt(1), vid[p], RInt(0))]
        det_pos == [p \in Pixels |-> Where(det_pos0[p] = det_max[p], 1, 0)]
    IN  [p \in Pixels |-> Where(det_sum[p] = RInt(1), det_pos[p], out[p])]

\* The object names; "where" is the array the xr.where of lines 283-289 returns.
NtObjects == {"in_vi2_rad", "in_sza", "in_vid", "in_pfp", "def_dets", "out_dets", "where"}
NtInputs == {"in_vi2_rad", "in_sza", "in_vid", "in_pfp"}

\* The arguments: a background, and two cells A and B set apart from it.
NtPosA == {<<1, 1>>, <<2, 2>>}
NtPosB == {<<1, 2>>, <<3, 3>>}
NtBgRad == {Rat(1, 1000), Rat(1, 80), RInt(0)}
NtBgVid == {RInt(0), Rat(1, 10)}
NtCellsA == [rad : {RInt(3), Rat(1, 1000)}, vid : {Rat(1, 20), Rat(1, 10), RInt(1)},
             pfp : {0, 1}]
NtCellsB == [rad : {RInt(3), Rat(1, 1000)}, vid : {Rat(1, 20), Rat(1, 10)}, pfp : {0, 1}]
NtSzaPatterns == {"night", "day", "mixed"}

\* The dtype of each argument array.
InputDtype(o) == IF o = "in_pfp" THEN "uint8" ELSE "float32"

NtGrid(bg, a, pa, b, pb) ==
    [p \in Pixels |-> IF p = pa THEN a ELSE IF p = pb THEN b ELSE bg]

NtLocalsReset ==
    /\ thr_vis' = NaN /\ def_dets' = "" /\ out_dets' = ""
    /\ bg_caller' = "" /\ bg_args' = <<>> /\ bg_tmp' = <<>> /\ bg_i' = 0
    /\ cum_sum' = RInt(0) /\ bg_ret' = NaN

NtInit ==
    /\ \E pa \in NtPosA, pb \in NtPosB, a \in NtCellsA, b \in NtCellsB,
          bgrad \in NtBgRad, bgvid \in NtBgVid, pat \in NtSzaPatterns :
            nt_in = [in_vi2_rad |-> NtGrid(bgrad, a.rad, pa, b.rad, pb),
                     in_vid |-> NtGrid(bgvid, a.vid, pa, b.vid, pb),
                     in_pfp |-> NtGrid(0, a.pfp, pa, b.pfp, pb),
                     in_sza |-> IF pat = "night" THEN [p \in Pixels |-> 100]
                                ELSE IF pat = "day" THEN [p \in Pixels |-> 50]
                                ELSE NtGrid(100, 50, pa, 100, pb)]
    /\ nt_heap = [o \in NtObjects |->
                     IF o \in NtInputs THEN [dtype |-> InputDtype(o), data |-> nt_in[o]]
                     ELSE <<>>]
    /\ nt_opts = DefaultOpts
    /\ nt_pc = "call" /\ nt_call = 1
    /\ thr_vis = NaN /\ def_dets = "" /\ out_dets = "" /\ nt_ret = <<>> /\ nt_ret1 = <<>>
    /\ BgIdle

InitNight == S1Idle /\ UIdle /\ S5Idle /\ FrpIdle /\ NtInit /\ WsIdle

\* Lines 253-254: some pixel is a night pixel, compute_background_rad is called.
NtCallBg ==
    /\ nt_pc = "call"
    /\ AnyNight(nt_heap["in_sza"].data, nt_opts)
    /\ bg_caller' = "night"
    /\ bg_args' = [indata |-> nt_heap["in_vi2_rad"].data, insza |-> nt_heap["in_sza"].data,
                   sza_thr |-> nt_opts.sza_thresh, rad_sum_thr |-> default_rad_sum_thr]
    /\ nt_pc' = "bg_start"
    /\ UNCHANGED <<bg_tmp, bg_i, cum_sum, bg_ret, nt_in, nt_heap, nt_opts, nt_call,
                   thr_vis, def_dets, out_dets, nt_ret, nt_ret1, s1vars, uvars, s5vars,
                   frpvars, wsvars>>

\* Lines 253, 255-256: no night pixel, return np.zeros_like(in_vi2_rad).
NtReturnNoNight ==
    /\ nt_pc = "call"
    /\ ~AnyNight(nt_heap["in_sza"].data, nt_opts)
    /\ nt_ret' = [tuple |-> FALSE, items |-> <<ZerosLike(nt_heap["in_vi2_rad"])>>]
    /\ nt_pc' = "done"
    /\ UNCHANGED <<bgvars, nt_in, nt_heap, nt_opts, nt_call, thr_vis, def_dets, out_dets,
                   nt_ret1, s1vars, uvars, s5vars, frpvars, wsvars>>

\* Lines 258-259: the histogram was degenerate, return np.zeros_like(in_vi2_rad).
NtReturnDegenerate ==
    /\ nt_pc = "thr"
    /\ thr_vis = RInt(bg_sentinel)
    /\ nt_ret' = [tuple |-> FALSE, items |-> <<ZerosLike(nt_heap["in_vi2_rad"])>>]
    /\ nt_pc' = "done"
    /\ UNCHANGED <<bgvars, nt_in, nt_heap, nt_opts, nt_call, thr_vis, def_dets, out_dets,
                   nt_ret1, s1vars, uvars, s5vars, frpvars, wsvars>>

\* Lines 258, 262-264: def_dets is a new array, its data assigned three times.
NtDefDets ==
    /\ nt_pc = "thr"
    /\ thr_vis # RInt(bg_sentinel)
    /\ def_dets' = AsTypeNew("def_dets", "in_vi2_rad")
    /\ nt_heap' = [nt_heap EXCEPT ![def_dets'] = [dtype |-> "uint8", data |-> DefDetsData(nt_heap, nt_opts)]]
    /\ nt_pc' = "cand"
    /\ UNCHANGED <<bgvars, nt_in, nt_opts, nt_call, thr_vis, out_dets, nt_ret, nt_ret1,
                   s1vars, uvars, s5vars, frpvars, wsvars>>

\* Lines 267-271: out_dets is a new array, its data assigned three times.
NtCandidates ==
    /\ nt_pc = "cand"
    /\ out_dets' = AsTypeNew("out_dets", "in_vi2_rad")
    /\ nt_heap' = [nt_heap EXCEPT ![out_dets'] =
                      [dtype |-> "uint8", data |-> CandidatesData(nt_heap, nt_opts, thr_vis)]]
    /\ nt_pc' = "dedup"
    /\ UNCHANGED <<bgvars, nt_in, nt_opts, nt_call, thr_vis, def_dets, nt_ret, nt_ret1,
                   s1vars, uvars, s5vars, frpvars, wsvars>>

\* Lines 276-283: out_dets is bound to the array xr.where returns.
NtDedup ==
    /\ nt_pc = "dedup"
    /\ out_dets' = "where"
    /\ nt_heap' = [nt_heap EXCEPT !["where"] =
                      [dtype |-> "uint8",
                       data |-> DedupData(nt_heap[out_dets].data, nt_heap["in_vid"].data)]]
    /\ nt_pc' = "merge"
    /\ UNCHANGED <<bgvars, nt_in, nt_opts, nt_call, thr_vis, def_dets, nt_ret, nt_ret1,
                   s1vars, uvars, s5vars, frpvars, wsvars>>

\* Faulty variant of the merge: the definite detections are not applied.
NtMergeSkip ==
    /\ nt_pc = "merge"
    /\ nt_pc' = "night"
    /\ UNCHANGED <<bgvars, nt_in, nt_heap, nt_opts, nt_call, thr_vis, def_dets, out_dets,
                   nt_ret, nt_ret1, s1vars, uvars, s5vars, frpvars, wsvars>>

\* Line 286: out_dets = xr.where(def_dets > 0, 1, out_dets)
NtMerge ==
    /\ nt_pc = "merge"
    /\ nt_heap' = [nt_heap EXCEPT !["where"] =
                      [dtype |-> "uint8",
                       data |-> [p \in Pixels |-> Where(nt_heap[def_dets].data[p] > 0, 1,
                                                        nt_heap[out_dets].data[p])]]]
    /\ nt_pc' = "night"
    /\ UNCHANGED <<bgvars, nt_in, nt_opts, nt_call, thr_vis, def_dets, out_dets, nt_ret,
                   nt_ret1, s1vars, uvars, s5vars, frpvars, wsvars>>

\* Lines 289-291: the night restriction, and return out_dets, def_dets.
NtReturn ==
    /\ nt_pc = "night"
    /\ LET out == [p \in Pixels |->
                      Where(nt_heap["in_sza"].data[p] > nt_opts.sza_thresh,
                            nt_heap[out_dets].data[p], 0)]
       IN  /\ nt_heap' = [nt_heap EXCEPT !["where"] = [dtype |-> "uint8", data |-> out]]
           /\ nt_ret' = [tuple |-> TRUE, items |-> <<out, nt_heap[def_dets].data>>]
    /\ nt_pc' = "done"
    /\ UNCHANGED <<bgvars, nt_in, nt_opts, nt_call, thr_vis, def_dets, out_dets, nt_ret1,
                   s1vars, uvars, s5vars, frpvars, wsvars>>

\* The caller calls again with the same argument objects and the same default
\* opts: the locals of the first call are gone, the objects it was passed stay.
NtSecondCall ==
    /\ nt_pc = "done" /\ nt_call = 1
    /\ nt_ret1' = nt_ret
    /\ nt_ret' = <<>>
    /\ nt_heap' = [o \in NtObjects |-> IF o \in NtInputs THEN nt_heap[o] ELSE <<>>]
    /\ NtLocalsReset
    /\ nt_call' = 2
    /\ nt_pc' = "call"
    /\ UNCHANGED <<nt_in, nt_opts, s1vars, uvars, s5vars, frpvars, wsvars>>

NextNight ==
    \/ NtCallBg
    \/ NtReturnNoNight
    \/ BgStart
    \/ BgReturnSentinel
    \/ BgLoopStep
    \/ BgReturn
    \/ NtReturnDegenerate
    \/ NtDefDets
    \/ NtCandidates
    \/ NtDedup
    \/ NtMerge
    \/ NtReturn
    \/ NtSecondCall

SpecNight == InitNight /\ [][NextNight]_vars

(***************************************************************************)
(* Properties of run_basic_night_detection.                                *)
(***************************************************************************)
NtNight(p) == nt_in.in_sza[p] > 97

\* No night cell has a positive radiance inside the histogram range.
NtHistEmpty ==
    \A p \in Pixels :
        ~(NtNight(p) /\ RGt(nt_in.in_vi2_rad[p], RInt(0)) /\ RLe(nt_in.in_vi2_rad[p], RInt(2)))

\* C13 as claimed: every path returns the pair (fire_mask, definite_mask); with
\* no night pixel, and with a degenerate night histogram, the pair is two
\* all-zero masks of the input shape.
C13_PairOnEveryPath ==
    nt_pc = "done" =>
        /\ nt_ret.tuple
        /\ Len(nt_ret.items) = 2
        /\ ((\A p \in Pixels : ~NtNight(p)) \/ NtHistEmpty) =>
               \A k \in 1..Len(nt_ret.items) : nt_ret.items[k] = ZeroGrid

\* The three candidate conditions on the cell itself.
IsCandidate(p) ==
    /\ RGt(nt_in.in_vi2_rad[p], RMul(RInt(2), thr_vis))
    /\ RGt(nt_in.in_vid[p], Rat(2, 100))
    /\ nt_in.in_pfp[p] = 1

\* The cells of the grid in the 3x3 window around p.
Window3(p) ==
    {q \in Pixels : q[1] - p[1] \in -1..1 /\ q[2] - p[2] \in -1..1}

\* C15 as claimed: a pixel of the returned fire mask is a night pixel that is
\* in definite_mask or is a candidate itself, and the mask the de-duplication
\* leaves holds candidates only.
C15_FireMaskFromCandidates ==
    /\ (nt_pc = "done" /\ nt_ret.tuple) =>
           \A p \in Pixels :
               nt_ret.items[1][p] = 1 =>
                   /\ NtNight(p)
                   /\ (nt_ret.items[2][p] = 1 \/ IsCandidate(p))
    /\ nt_pc = "merge" =>
           \A p \in Pixels : nt_heap[out_dets].data[p] = 1 => IsCandidate(p)

\* The only candidate of its 3x3 neighbourhood.
IsLone(p) == IsCandidate(p) /\ \A q \in Window3(p) \ {p} : ~IsCandidate(q)

\* vis_diff of p is the maximum of its 3x3 window.
IsWindowMax(p) == \A q \in Window3(p) : RLe(nt_in.in_vid[q], nt_in.in_vid[p])

\* C19 as claimed: after the de-duplication a lone candidate, on the border or
\* not, is in the mask if and only if its vis_diff is the maximum of its 3x3
\* window, and a candidate with another candidate next to it is in the mask.
C19_DedupEverywhere ==
    nt_pc = "merge" =>
        \A p \in Pixels :
            IsCandidate(p) =>
                IF IsLone(p) THEN (nt_heap[out_dets].data[p] = 1 <=> IsWindowMax(p))
                ELSE nt_heap[out_dets].data[p] = 1

\* vis_diff of p is the window maximum and a neighbour has the same vis_diff.
IsTiedMax(p) ==
    IsWindowMax(p) /\ \E q \in Window3(p) \ {p} : nt_in.in_vid[q] = nt_in.in_vid[p]

\* C20 as claimed: after the de-duplication a lone candidate tied with a
\* neighbour at the window maximum is not in the mask.
C20_TieDropped ==
    nt_pc = "merge" =>
        \A p \in Pixels : (IsLone(p) /\ IsTiedMax(p)) => nt_heap[out_dets].data[p] = 0

\* C20, amended: after the de-duplication a lone candidate tied with a neighbour
\* at the window maximum is still in the mask.
C20_TieKept ==
    nt_pc = "merge" =>
        \A p \in Pixels : (IsLone(p) /\ IsTiedMax(p)) => nt_heap[out_dets].data[p] = 1

\* The tied lone candidate is the interior cell, where the window sum is 1 and
\* the comparison with the maximum decides.
C20_Witness ==
    /\ nt_pc = "merge"
    /\ IsLone(<<2, 2>>) /\ IsTiedMax(<<2, 2>>)
    /\ nt_heap[out_dets].data[<<2, 2>>] = 1

\* C16: the argument objects and the opts dictionary always hold what the
\* caller passed, and the second call on them returns what the first returned.
C16_DeterministicNoSideEffects ==
    /\ nt_pc # "idle" =>
           /\ \A o \in NtInputs :
                  nt_heap[o].dtype = InputDtype(o) /\ nt_heap[o].data = nt_in[o]
           /\ nt_opts = DefaultOpts
    /\ (nt_pc = "done" /\ nt_call = 2) => nt_ret = nt_ret1

\* The second call has returned the pair, with a fire pixel in it.
C16_Witness ==
    /\ nt_pc = "done" /\ nt_call = 2
    /\ nt_ret.tuple
    /\ \E p \in Pixels : nt_ret.items[1][p] = 1
    /\ nt_ret = nt_ret1

(***************************************************************************)
(* compute_window_stats(target_channels, candidate_mask, land_sea_mask,    *)
(* cloud_mask?, min_valid, max_window): the expanding-window scan of the   *)
(* WindowStatsEngine.  PYF_WindowStats is imported by PYF_detection.py but *)
(* its source is not in the repository tree at hand, so the scan follows   *)
(* the algorithm of spec.md section 4.2.                                   *)
(***************************************************************************)
WsGridN == 4
WsPixels == (1..WsGridN) \X (1..WsGridN)

\* The square window of half-size w around p, clipped to the cells of the grids
\* passed in.
WsWindow(in, p, w) ==
    {q \in DOMAIN in.cand : q[1] - p[1] \in (-w)..w /\ q[2] - p[2] \in (-w)..w}

\* Faulty variant of the classification: the cloud mask is not consulted.
WsClassIgnoreCloud(in, p, q) ==
    IF q = p \/ in.cand[q] = 1 THEN "candidate"
    ELSE IF in.lsm[q] # lsm_land_val THEN "water"
    ELSE "background"

\* Step 2, the class of window pixel q for target pixel p.
WsClass(in, p, q) ==
    IF q = p \/ in.cand[q] = 1 THEN "candidate"
    ELSE IF in.has_cloud /\ in.cloud[q] = 1 THEN "cloud"
    ELSE IF in.lsm[q] # lsm_land_val THEN "water"
    ELSE "background"

WsCount(in, p, w, class) ==
    Cardinality({q \in WsWindow(in, p, w) : WsClass(in, p, q) = class})

\* Step 3, "count of background pixels >= min_valid".
WsEnough(in, cfg, p, w) == WsCount(in, p, w, "background") >= cfg.min_valid

\* Step 5, "the final background set": the background pixels of the window.
WsBgSet(in, p, w) == {q \in WsWindow(in, p, w) : WsClass(in, p, q) = "background"}

\* F(x), with x evaluated once before F is applied to it.
Once(F(_), x) == CHOOSE r \in {F(v) : v \in {x}} : TRUE

\* The k-th cell of the grid in row-major order.
WsCellAt(k) == <<((k - 1) \div WsGridN) + 1, ((k - 1) % WsGridN) + 1>>

RECURSIVE WsSumTo(_, _, _)
\* The sum of channel ch over the pixels of S among the first k cells.
WsSumTo(ch, S, k) ==
    IF k = 0 THEN 0
    ELSE WsSumTo(ch, S, k - 1) + (IF WsCellAt(k) \in S THEN ch[WsCellAt(k)] ELSE 0)

\* The sum of channel ch over the pixels S, accumulated in scan order.
WsSum(ch, S) == WsSumTo(ch, S, WsGridN * WsGridN)

\* The mean, from t = <<sum, count>>.
WsMeanOf(t) == Rat(t[1], t[2])

\* The mean of channel ch over the pixels S.
WsMean(ch, S) == Once(WsMeanOf, <<WsSum(ch, S), Cardinality(S)>>)

\* The variance, from t = <<sum, sum of squares, count>>: the mean of the
\* squares less the square of the mean.
WsVarOf(t) == Rat(t[3] * t[2] - t[1] * t[1], t[3] * t[3])

\* The variance of channel ch over the pixels S.
WsVar(ch, S) ==
    Once(WsVarOf, <<WsSum(ch, S), WsSum([q \in S |-> ch[q] * ch[q]], S), Cardinality(S)>>)

RECURSIVE WsSqrtGe(_, _, _)
\* The least r >= from with (r / RootScale)^2 >= n / d, for n >= 0 and d > 0.
WsSqrtGe(from, n, d) ==
    IF from * from * d >= n * RootScale * RootScale THEN from
    ELSE WsSqrtGe(from + 1, n, d)

\* The square root of v: NaN for NaN and for negative v, and for a finite
\* v >= 0 the root rounded up to a multiple of 1/RootScale.
WsSqrtOf(v) ==
    IF IsNaN(v) \/ v[1] < 0 THEN NaN
    ELSE IF IsInf(v) THEN v
    ELSE Rat(WsSqrtGe(0, v[1], v[2]), RootScale)

WsSqrt(x) == Once(WsSqrtOf, x)

\* The standard deviation of channel ch over the pixels S.
WsStd(ch, S) == WsSqrt(WsVar(ch, S))

\* Step 5, the record for the final window: the statistics of the two target
\* channels over the background set and the counts.
WsRecord(in, p, w) ==
    [mean_btd |-> WsMean(in.btd, WsBgSet(in, p, w)),
     std_btd |-> WsStd(in.btd, WsBgSet(in, p, w)),
     mean_mir |-> WsMean(in.mir, WsBgSet(in, p, w)),
     std_mir |-> WsStd(in.mir, WsBgSet(in, p, w)),
     n_window |-> Cardinality(WsWindow(in, p, w)),
     n_cloud |-> WsCount(in, p, w, "cloud"),
     n_water |-> WsCount(in, p, w, "water")]

\* Step 4, the record of a pixel whose statistics are unavailable.
WsSentinel ==
    [mean_btd |-> NaN, std_btd |-> NaN, mean_mir |-> NaN, std_mir |-> NaN,
     n_window |-> 0, n_cloud |-> 0, n_water |-> 0]

\* Faulty variant of the growth: the half-size doubles.
WsNextDouble(w) == 2 * w

\* Step 3, "increase w by 1".
WsNext(w) == w + 1

\* Faulty variant of the limit test: the growth gives up one half-size early.
WsAtLimitEarly(cfg, w) == w >= cfg.max_window - 1

\* Step 3/4, "up to max_window".
WsAtLimit(cfg, w) == w >= cfg.max_window

\* InvalidParameter: min_valid above the largest background population a window
\* of half-size max_window can hold (every cell but the pixel itself).
WsInvalidParams(cfg) ==
    cfg.min_valid > (2 * cfg.max_window + 1) * (2 * cfg.max_window + 1) - 1

\* The arguments: the candidates, the cells that are clear land, and what the
\* other cells are (water, or cloud over land, or both in alternation).
WsCandSets == {{<<1, 1>>}, {<<2, 2>>}, {<<1, 1>>, <<1, 2>>}, {<<1, 1>>, <<4, 4>>}}
WsClearSets == {WsPixels, {<<4, 4>>}, {<<3, 3>>}, {<<3, 3>>, <<4, 4>>}, {},
                {<<1, 2>>, <<2, 1>>}}
WsBlockKinds == {"water", "cloud", "both"}
WsMinValids == {1, 2, 9}
WsMaxWindows == {1, 2, 3}
WsChanKinds == {"flat", "ramp"}

\* The two target channels (whole kelvin): uniform, or varying from cell to cell.
WsChannel(chan, base, q) ==
    IF chan = "flat" THEN base ELSE base + q[1] * q[2] + q[2]

WsInput(cands, clear, kind, chan) ==
    [btd |-> [q \in WsPixels |-> WsChannel(chan, 2, q)],
     mir |-> [q \in WsPixels |-> WsChannel(chan, 300, q)],
     cand |-> [q \in WsPixels |-> IF q \in cands THEN 1 ELSE 0],
     lsm |-> [q \in WsPixels |->
                 IF q \in clear \/ kind = "cloud" \/ (kind = "both" /\ (q[1] + q[2]) % 2 = 0)
                 THEN lsm_land_val ELSE 0],
     has_cloud |-> kind # "water",
     cloud |-> [q \in WsPixels |->
                   IF q \notin clear /\ (kind = "cloud" \/ (kind = "both" /\ (q[1] + q[2]) % 2 = 0))
                   THEN 1 ELSE 0]]

(***************************************************************************)
(* Tiled execution (spec.md section 5): the grid is partitioned into         *)
(* rectangular tiles, each tile is handed the input grids cut to its cells  *)
(* plus a halo, and writes the records of its own cells.  A cut keeps the   *)
(* grid coordinates of its cells, so a record is written where it belongs.  *)
(* The grid is cut once along each axis, after row and column TileSplit.    *)
(***************************************************************************)
TileSplit == 2
Tiles == {"upper", "lower"} \X {"left", "right"}

\* The cells tile t owns: the tiles partition the grid.
TileCore(t) ==
    {q \in WsPixels : /\ (q[1] <= TileSplit) <=> (t[1] = "upper")
                      /\ (q[2] <= TileSplit) <=> (t[2] = "left")}

\* Faulty variant of the halo: one cell short.
TileHaloShort(cfg) == cfg.max_window - 1

\* "a halo of max_window cells (for WindowStatsEngine)".
TileHalo(cfg) == cfg.max_window

\* The cells handed to tile t: its own and the halo around them, within the grid.
TileRegion(t, cfg) ==
    {q \in WsPixels : \E c \in TileCore(t) :
        /\ q[1] - c[1] \in (-TileHalo(cfg))..TileHalo(cfg)
        /\ q[2] - c[2] \in (-TileHalo(cfg))..TileHalo(cfg)}

\* The input grids cut to the cells of region.
WsSlice(in, region) ==
    [btd |-> [q \in region |-> in.btd[q]],
     mir |-> [q \in region |-> in.mir[q]],
     cand |-> [q \in region |-> in.cand[q]],
     lsm |-> [q \in region |-> in.lsm[q]],
     has_cloud |-> in.has_cloud,
     cloud |-> [q \in region |-> in.cloud[q]]]

RECURSIVE WsScanFrom(_, _, _, _)
\* Steps 3 to 5 for pixel p from half-size w on: the record the scan ends with.
WsScanFrom(in, cfg, p, w) ==
    IF WsEnough(in, cfg, p, w) THEN WsRecord(in, p, w)
    ELSE IF WsAtLimit(cfg, w) THEN WsSentinel
    ELSE WsScanFrom(in, cfg, p, WsNext(w))

\* Steps 1 to 5 for pixel p on the grids in.
WsScan(in, cfg, p) == WsScanFrom(in, cfg, p, 1)

\* compute_window_stats on the cut of tile t: the records of the tile's own cells.
TileStats(in, cfg, t) ==
    LET cut == WsSlice(in, TileRegion(t, cfg))
    IN  [p \in TileCore(t) |-> IF cut.cand[p] = 1 THEN WsScan(cut, cfg, p) ELSE WsSentinel]

WsInit ==
    /\ \E cands \in WsCandSets, clear \in WsClearSets, kind \in WsBlockKinds,
          chan \in WsChanKinds :
          ws_in = WsInput(cands, clear, kind, chan)
    /\ \E mv \in WsMinValids, mw \in WsMaxWindows :
          ws_cfg = [min_valid |-> mv, max_window |-> mw]
    /\ ws_run = "call"
    /\ ws_pc = [p \in WsPixels |-> "none"]
    /\ ws_w = [p \in WsPixels |-> 0]
    /\ ws_stats = [p \in WsPixels |-> WsSentinel]
    /\ tl_pc = [t \in Tiles |-> "todo"]
    /\ tl_stats = [p \in WsPixels |-> WsSentinel]

InitWindow == S1Idle /\ UIdle /\ S5Idle /\ FrpIdle /\ NtIdle /\ BgIdle /\ WsInit

\* The parameters are accepted: every candidate pixel starts at half-size 1.
WsBegin ==
    /\ ws_run = "call"
    /\ ~WsInvalidParams(ws_cfg)
    /\ ws_run' = "running"
    /\ ws_pc' = [p \in WsPixels |-> IF ws_in.cand[p] = 1 THEN "grow" ELSE "skip"]
    /\ ws_w' = [p \in WsPixels |-> IF ws_in.cand[p] = 1 THEN 1 ELSE 0]
    /\ UNCHANGED <<ws_in, ws_cfg, ws_stats, s1vars, uvars, s5vars, frpvars, ntvars, bgvars, tlvars>>

\* InvalidParameter, before any computation.
WsRaise ==
    /\ ws_run = "call"
    /\ WsInvalidParams(ws_cfg)
    /\ ws_run' = "error"
    /\ UNCHANGED <<ws_in, ws_cfg, ws_pc, ws_w, ws_stats, s1vars, uvars, s5vars, frpvars,
                   ntvars, bgvars, tlvars>>

\* Steps 3 and 5 for pixel p: enough background pixels, the growth stops and the
\* record of this window is written.
WsStop(p) ==
    /\ ws_run = "running" /\ ws_pc[p] = "grow"
    /\ WsEnough(ws_in, ws_cfg, p, ws_w[p])
    /\ ws_stats' = [ws_stats EXCEPT ![p] = WsRecord(ws_in, p, ws_w[p])]
    /\ ws_pc' = [ws_pc EXCEPT ![p] = "done"]
    /\ UNCHANGED <<ws_in, ws_cfg, ws_run, ws_w, s1vars, uvars, s5vars, frpvars, ntvars,
                   bgvars, tlvars>>

\* Step 3 for pixel p: too few background pixels, the window grows.
WsGrow(p) ==
    /\ ws_run = "running" /\ ws_pc[p] = "grow"
    /\ ~WsEnough(ws_in, ws_cfg, p, ws_w[p])
    /\ ~WsAtLimit(ws_cfg, ws_w[p])
    /\ ws_w' = [ws_w EXCEPT ![p] = WsNext(ws_w[p])]
    /\ UNCHANGED <<ws_in, ws_cfg, ws_run, ws_pc, ws_stats, s1vars, uvars, s5vars, frpvars,
                   ntvars, bgvars, tlvars>>

\* Step 4 for pixel p: max_window reached without min_valid background pixels.
WsUnavailable(p) ==
    /\ ws_run = "running" /\ ws_pc[p] = "grow"
    /\ ~WsEnough(ws_in, ws_cfg, p, ws_w[p])
    /\ WsAtLimit(ws_cfg, ws_w[p])
    /\ ws_stats' = [ws_stats EXCEPT ![p] = WsSentinel]
    /\ ws_pc' = [ws_pc EXCEPT ![p] = "unavailable"]
    /\ UNCHANGED <<ws_in, ws_cfg, ws_run, ws_w, s1vars, uvars, s5vars, frpvars, ntvars,
                   bgvars, tlvars>>

\* Every candidate pixel has its record: the grid of records is returned.
WsReturn ==
    /\ ws_run = "running"
    /\ \A p \in WsPixels : ws_pc[p] # "grow"
    /\ ws_run' = "returned"
    /\ UNCHANGED <<ws_in, ws_cfg, ws_pc, ws_w, ws_stats, s1vars, uvars, s5vars, frpvars,
                   ntvars, bgvars, tlvars>>

NextWindow ==
    \/ WsBegin
    \/ WsRaise
    \/ \E p \in WsPixels : WsStop(p)
    \/ \E p \in WsPixels : WsGrow(p)
    \/ \E p \in WsPixels : WsUnavailable(p)
    \/ WsReturn

\* The pixels are scanned by tasks that all get to run.
SpecWindow == InitWindow /\ [][NextWindow]_vars /\ WF_vars(NextWindow)

\* The task of tile t: the scan runs on the tile's cut and its records are
\* written to the tile's own cells of the output.
TileRun(t) ==
    /\ ws_run = "returned"
    /\ tl_pc[t] = "todo"
    /\ LET out == TileStats(ws_in, ws_cfg, t)
       IN  tl_stats' = [p \in WsPixels |-> IF p \in TileCore(t) THEN out[p] ELSE tl_stats[p]]
    /\ tl_pc' = [tl_pc EXCEPT ![t] = "done"]
    /\ UNCHANGED <<ws_in, ws_cfg, ws_run, ws_pc, ws_w, ws_stats, s1vars, uvars, s5vars,
                   frpvars, ntvars, bgvars>>

\* The whole-grid scan, then the tile tasks in any order.
NextTiles ==
    \/ NextWindow
    \/ \E t \in Tiles : TileRun(t)

SpecTiles == InitWindow /\ [][NextTiles]_vars

(***************************************************************************)
(* Properties of compute_window_stats.                                     *)
(***************************************************************************)
WsCandidates == {p \in WsPixels : ws_in.cand[p] = 1}

\* The clear-land cells other than p and the candidates within w rows and
\* columns of p: the background pixels of the window of half-size w.
WsBackground(p, w) ==
    {q \in WsPixels :
        /\ q[1] >= p[1] - w /\ q[1] <= p[1] + w /\ q[2] >= p[2] - w /\ q[2] <= p[2] + w
        /\ q # p /\ ws_in.cand[q] = 0
        /\ ws_in.lsm[q] = 2
        /\ ~(ws_in.has_cloud /\ ws_in.cloud[q] = 1)}

WsYields(p, w) == Cardinality(WsBackground(p, w)) >= ws_cfg.min_valid

WsMin(a, b) == IF a < b THEN a ELSE b
WsMax(a, b) == IF a > b THEN a ELSE b

\* The number of cells of the clipped window of half-size w around p.
WsFootprint(p, w) ==
    (WsMin(WsGridN, p[1] + w) - WsMax(1, p[1] - w) + 1)
        * (WsMin(WsGridN, p[2] + w) - WsMax(1, p[2] - w) + 1)

\* The half-size of a candidate pixel is in 1..max_window, every smaller
\* half-size was insufficient, and a pixel whose growth stopped has a sufficient
\* window and the n_window of that window's footprint.
C17_Minimal ==
    ws_run \in {"running", "returned"} =>
        \A p \in WsCandidates :
            /\ ws_w[p] \in 1..ws_cfg.max_window
            /\ \A w \in 1..(ws_w[p] - 1) : ~WsYields(p, w)
            /\ ws_pc[p] = "done" =>
                   /\ WsYields(p, ws_w[p])
                   /\ ws_stats[p].n_window = WsFootprint(p, ws_w[p])

\* C17: the window growth is minimal (C17_Minimal in every state: it starts at 1,
\* grows by 1, never beyond max_window, and stops at the smallest sufficient
\* half-size with that window's n_window) and it terminates: the run ends.
C17_GrowthMinimalAndTerminates ==
    [](C17_Minimal) /\ <>(ws_run \in {"returned", "error"})

\* The corner pixel found its single background pixel at half-size 3 with
\* min_valid = 1, and reports the 4 x 4 cells of that clipped window.
C17_Witness ==
    /\ ws_run = "returned"
    /\ ws_cfg.min_valid = 1
    /\ ws_pc[<<1, 1>>] = "done" /\ ws_w[<<1, 1>>] = 3
    /\ Cardinality(WsBackground(<<1, 1>>, 3)) = 1
    /\ ws_stats[<<1, 1>>].n_window = 16

\* C18: a candidate pixel is marked unavailable (n_window = 0) exactly when no
\* half-size in 1..max_window yields min_valid background pixels; a pixel whose
\* growth succeeded has n_window > 0; the run does not fail for it: when it
\* returns, every candidate pixel has its record, unavailable or not.
C18_UnavailableIffNoWindow ==
    /\ ws_run \in {"running", "returned"} =>
           \A p \in WsCandidates :
               /\ ws_pc[p] = "unavailable" =>
                      /\ ws_stats[p].n_window = 0
                      /\ \A w \in 1..ws_cfg.max_window : ~WsYields(p, w)
               /\ ws_pc[p] = "done" =>
                      /\ ws_stats[p].n_window > 0
                      /\ \E w \in 1..ws_cfg.max_window : WsYields(p, w)
    /\ ws_run = "returned" =>
           \A p \in WsCandidates :
               /\ ws_pc[p] \in {"done", "unavailable"}
               /\ ws_stats[p].n_window = 0 <=> \A w \in 1..ws_cfg.max_window : ~WsYields(p, w)
    /\ ws_run = "error" =>
           /\ ws_cfg.min_valid > 8
           /\ \A p \in WsPixels : ws_pc[p] = "none"

\* The run has returned with one candidate unavailable and another with its
\* statistics.
C18_Witness ==
    /\ ws_run = "returned"
    /\ \E p \in WsCandidates, q \in WsCandidates :
          /\ ws_pc[p] = "unavailable" /\ ws_stats[p].n_window = 0
          /\ ws_pc[q] = "done" /\ ws_stats[q].n_window > 0

\* The channel ch as floats.
WsFloat(ch) == [q \in DOMAIN ch |-> RInt(ch[q])]

\* s is the standard deviation of channel ch over the non-empty set S, to the
\* resolution 1/RootScale: the least multiple of 1/RootScale whose square is at
\* least the mean of the squared deviations from the mean.
WsIsStdOf(s, ch, S) ==
    LET n == RInt(Cardinality(S))
        m == RDiv(RSumFun(WsFloat(ch), S), n)
        dev == Tab([q \in S |-> RMul(RSub(RInt(ch[q]), m), RSub(RInt(ch[q]), m))])
        v == RDiv(RSumFun(dev, S), n)
        k == RMul(s, RInt(RootScale))
        below == RDiv(RSub(k, RInt(1)), RInt(RootScale))
    IN  /\ IsFinite(s) /\ s[1] >= 0
        /\ k[2] = 1
        /\ RGe(RMul(s, s), v)
        /\ k[1] > 0 => RLt(RMul(below, below), v)

\* The window cells of half-size w around p, by their row and column distance.
WsNear(p, w) ==
    {q \in WsPixels :
        q[1] >= p[1] - w /\ q[1] <= p[1] + w /\ q[2] >= p[2] - w /\ q[2] <= p[2] + w}

WsIsCloud(q) == ws_in.has_cloud /\ ws_in.cloud[q] = 1

\* C21: for a candidate pixel whose growth stopped, the background set of the
\* final window holds only land cells that are not candidates, not cloud and not
\* the pixel itself; mean_btd, std_btd, mean_mir and std_mir are the mean and the
\* standard deviation over exactly that set; n_cloud counts the window's cloud
\* cells and n_water its water cells (candidates apart, a cell counted once); and
\* n_cloud + n_water + (background count) <= n_window.
C21_StatsOverBackground ==
    ws_run \in {"running", "returned"} =>
        \A p \in WsCandidates :
            ws_pc[p] = "done" =>
                LET B == WsBackground(p, ws_w[p])
                    n == Cardinality(B)
                    r == ws_stats[p]
                IN  /\ n >= 1
                    /\ \A q \in B : q # p /\ ws_in.cand[q] = 0 /\ ws_in.lsm[q] = 2
                                    /\ ~WsIsCloud(q)
                    /\ RMul(r.mean_btd, RInt(n)) = RSumFun(WsFloat(ws_in.btd), B)
                    /\ RMul(r.mean_mir, RInt(n)) = RSumFun(WsFloat(ws_in.mir), B)
                    /\ WsIsStdOf(r.std_btd, ws_in.btd, B)
                    /\ WsIsStdOf(r.std_mir, ws_in.mir, B)
                    /\ r.n_cloud = Cardinality({q \in WsNear(p, ws_w[p]) :
                                       q # p /\ ws_in.cand[q] = 0 /\ WsIsCloud(q)})
                    /\ r.n_water = Cardinality({q \in WsNear(p, ws_w[p]) :
                                       q # p /\ ws_in.cand[q] = 0 /\ ~WsIsCloud(q)
                                       /\ ws_in.lsm[q] # 2})
                    /\ r.n_cloud + r.n_water + n <= r.n_window

\* A returned run where a candidate has a window with cloud cells, water cells
\* and at least two background cells of differing values.
C21_Witness ==
    /\ ws_run = "returned"
    /\ \E p \in WsCandidates :
          /\ ws_pc[p] = "done"
          /\ Cardinality(WsBackground(p, ws_w[p])) >= 2
          /\ ws_stats[p].n_cloud > 0 /\ ws_stats[p].n_water > 0
          /\ RGt(ws_stats[p].std_mir, RInt(0))
          /\ RGt(ws_stats[p].mean_mir, RInt(300))

\* The argument grids the runs are started with.
WsInputs ==
    {WsInput(cands, clear, kind, chan) :
        cands \in WsCandSets, clear \in WsClearSets, kind \in WsBlockKinds,
        chan \in WsChanKinds}

\* The grids other agree with the grids of the run on every cell within h rows
\* and columns of p.
WsAgreeNear(other, p, h) ==
    \A q \in WsNear(p, h) :
        /\ other.btd[q] = ws_in.btd[q] /\ other.mir[q] = ws_in.mir[q]
        /\ other.cand[q] = ws_in.cand[q] /\ other.lsm[q] = ws_in.lsm[q]
        /\ (other.has_cloud /\ other.cloud[q] = 1) <=> WsIsCloud(q)

\* C22: the record a finished tile (cut with a halo of max_window cells) wrote
\* for a candidate pixel of its own is the record of the whole-grid scan of that
\* pixel, whichever tiles ran before it, and it is the whole-grid record for any
\* grids that agree within max_window rows and columns of the pixel.
C22_TileLocal ==
    \A t \in Tiles :
        tl_pc[t] = "done" =>
            \A p \in TileCore(t) \cap WsCandidates :
                /\ tl_stats[p] = ws_stats[p]
                /\ \A other \in WsInputs :
                       WsAgreeNear(other, p, ws_cfg.max_window) =>
                           WsScan(other, ws_cfg, p) = tl_stats[p]

\* Two tiles have run, the one with another still to do, and a candidate in one
\* of them has a record taken from a window that reaches beyond its tile and
\* that the whole-grid scan has also produced.
C22_Witness ==
    /\ \E t \in Tiles, u \in Tiles, v \in Tiles :
          /\ tl_pc[t] = "done" /\ tl_pc[u] = "done" /\ t # u /\ tl_pc[v] = "todo"
          /\ \E p \in TileCore(t) \cap WsCandidates :
                /\ ws_pc[p] = "done" /\ tl_stats[p] = ws_stats[p]
                /\ tl_stats[p].n_window > 0
                /\ \E q \in WsBackground(p, ws_w[p]) : q \notin TileCore(t)

(***************************************************************************)
(* stage1_tests on grids with invalid cells.                               *)
(***************************************************************************)
\* The returned mask has the shape of the inputs and every cell is 0 or 1.
PfpIsBinary == DOMAIN pfp = DOMAIN in_mir /\ \A p \in Pixels : pfp[p] \in {0, 1}

\* C23 as claimed: the returned mask is binary with the shape of the inputs, and
\* a pixel whose mir_bt, btd or vis_diff is not-a-number is 0 in it.
C23_InvalidNeverFlagged ==
    pc = "done" =>
        /\ PfpIsBinary
        /\ \A p \in Pixels :
               (IsNaN(in_mir[p]) \/ IsNaN(in_btd[p]) \/ IsNaN(in_vid[p])) => pfp[p] = 0

\* C23 amended: the returned mask is binary with the shape of the inputs; a pixel
\* whose btd or vis_diff is not-a-number is 0 in it; a pixel whose mir_bt is
\* not-a-number ends with counter 1 at most (the BTD test adds 1 after the
\* reset) and is 0 in it for every pass threshold >= 2.
C23_InvalidFlaggedOnlyAtOne ==
    pc = "done" =>
        /\ PfpIsBinary
        /\ \A p \in Pixels :
               /\ (IsNaN(in_btd[p]) \/ IsNaN(in_vid[p])) => pfp[p] = 0
               /\ IsNaN(in_mir[p]) => main_testarr[p] <= 1
               /\ (IsNaN(in_mir[p]) /\ pass_thresh >= 2) => pfp[p] = 0

\* A pixel with invalid mir_bt that passes the BTD test and the gates and holds
\* as many kernel votes as the pass threshold asks for is not flagged, and a
\* pixel elsewhere is.
C23_Witness ==
    /\ pc = "done" /\ pass_thresh >= 2
    /\ \E p \in Pixels :
        /\ IsNaN(in_mir[p]) /\ ~BtdFails(p) /\ PassesGates(p)
        /\ Votes(p) >= pass_thresh
        /\ pfp[p] = 0

(***************************************************************************)
(* The definite detections of run_basic_night_detection.                   *)
(***************************************************************************)
\* Whether p exceeds the two absolute thresholds (defaults 0.5 and 0.5).
IsDefinite(p) ==
    RGt(nt_in.in_vi2_rad[p], Rat(1, 2)) /\ RGt(nt_in.in_vid[p], Rat(1, 2))

\* C24: on the normal path (the pair is returned) definite_mask is 0 or 1, it is
\* 1 only at night pixels with vis2_rad > def_fire_rad_vis and vis_diff >
\* def_fire_rad_vid, and every pixel of definite_mask is 1 in the returned fire
\* mask, whatever pfp_mask and the de-duplication say.
C24_DefiniteSurvive ==
    (nt_pc = "done" /\ nt_ret.tuple) =>
        \A p \in Pixels :
            /\ nt_ret.items[2][p] \in {0, 1}
            /\ nt_ret.items[2][p] = 1 => NtNight(p) /\ IsDefinite(p)
            /\ nt_ret.items[2][p] = 1 => nt_ret.items[1][p] = 1

\* The pair is returned with a definite detection that pfp_mask does not hold and
\* that has no candidate in its 3x3 window (the de-duplication leaves it 0).
C24_Witness ==
    /\ nt_pc = "done" /\ nt_ret.tuple
    /\ \E p \in Pixels :
          /\ nt_ret.items[2][p] = 1 /\ nt_ret.items[1][p] = 1
          /\ nt_in.in_pfp[p] = 0
          /\ \A q \in Window3(p) : ~IsCandidate(q)

=============================================================================
